---- MODULE Spec2Model ----
(***************************************************************************)
(* A model of the campaign layout backend (backend/utils/smartLayout.js):  *)
(* FileHandler.parseProductCSV, FileHandler.matchImagesToProducts and      *)
(* SmartLayout.generateLayoutRecommendations with the element builders it  *)
(* calls, SmartLayout.analyzeImage, and FileHandler.upload,                *)
(* getSessionFiles, getSessionStatus and cleanupSession with the endpoints *)
(* of server.js that use them.                                             *)
(* Strings are sequences of one-character strings, so that lower-          *)
(* casing, extension stripping and substring search are computed as the    *)
(* code computes them.  JavaScript's undefined/null of an optional value   *)
(* is the empty option <<>>, a present value v is <<v>>.                   *)
(***************************************************************************)
EXTENDS Integers, Sequences, FiniteSets, TLC

VARIABLES
    pc,            \* which operation has run: "ready", then the operation's name
    images,        \* matchImagesToProducts: the uploaded image objects
    csvData,       \* matchImagesToProducts: the record table (parsedCSV.data)
    matchResult,   \* matchImagesToProducts: its return value, <<>> before the call
    csvColumns,    \* parseProductCSV: header fields of the parsed file (result.meta.fields)
    csvRows,       \* parseProductCSV: the rows Papa.parse returned (result.data)
    parsedCSV,     \* parseProductCSV: the resolved value, <<>> before the call
    products,      \* generateLayoutRecommendations: product images
    frameInfo,     \* generateLayoutRecommendations: optional frame
    icons,         \* generateLayoutRecommendations: icon images
    layoutCsv,     \* generateLayoutRecommendations: optional csvData argument
    layouts,       \* generateLayoutRecommendations: its return value, <<>> before the call
    textRow,       \* createTextElementsFromCSV: the csvRow argument
    textRegion,    \* createTextElementsFromCSV: the position argument
    textElements,  \* createTextElementsFromCSV: its return value
    imageBuffer,   \* analyzeImage: what sharp makes of the buffer
    analysis,      \* analyzeImage: its outcome (value or thrown error), <<>> before the call
    request,       \* server: the upload requests the session has received, <<>> before the first
    disk,          \* server: the session's directory under uploads/, <<>> if absent
    response       \* server: the last HTTP response, <<>> before the first

textVars == <<textRow, textRegion, textElements>>
analyzerVars == <<imageBuffer, analysis>>
serverVars == <<request, disk, response>>

vars == <<pc, images, csvData, matchResult, csvColumns, csvRows, parsedCSV,
          products, frameInfo, icons, layoutCsv, layouts,
          textVars, analyzerVars, serverVars>>

----------------------------------------------------------------------------
(* Bounds of the model *)

MaxImages == 3
MaxRecords == 3
MaxCsvRows == 2
MaxProducts == 9
MaxIcons == 4

----------------------------------------------------------------------------
(* Strings *)

SeqsUpTo(S, n) == UNION {[1..k -> S] : k \in 0..n}

Min(S) == CHOOSE x \in S : \A y \in S : x <= y
Max(S) == CHOOSE x \in S : \A y \in S : x >= y

\* String.prototype.toLowerCase, on the characters the model uses
LowerChar(c) ==
    CASE c = "A" -> "a"
      [] c = "B" -> "b"
      [] c = "U" -> "u"
      [] OTHER -> c

toLowerCase(s) == [i \in 1..Len(s) |-> LowerChar(s[i])]

\* String.prototype.includes: t occurs in s as a contiguous substring
includes(s, t) ==
    \E i \in 0..(Len(s) - Len(t)) : SubSeq(s, i + 1, i + Len(t)) = t

endsWith(s, t) ==
    /\ Len(t) <= Len(s)
    /\ SubSeq(s, Len(s) - Len(t) + 1, Len(s)) = t

\* path.extname: from the last "." to the end; "" when there is no "." or the
\* only "." is the first character of the name
extname(name) ==
    LET dots == {i \in 1..Len(name) : name[i] = "."}
    IN  IF dots = {} \/ Max(dots) = 1
        THEN <<>>
        ELSE SubSeq(name, Max(dots), Len(name))

\* path.basename(name, ext) for a name without directory separators
basename(name, ext) ==
    IF ext # <<>> /\ name # ext /\ endsWith(name, ext)
    THEN SubSeq(name, 1, Len(name) - Len(ext))
    ELSE name

Digits == <<"0", "1", "2", "3", "4", "5", "6", "7", "8", "9">>

\* Number -> decimal digits (n >= 0)
RECURSIVE IntToStr(_)
IntToStr(n) ==
    IF n < 10 THEN <<Digits[n + 1]>>
    ELSE IntToStr(n \div 10) \o <<Digits[(n % 10) + 1]>>

JpgExt == <<".", "j", "p", "g">>

----------------------------------------------------------------------------
(* FileHandler.matchImagesToProducts *)

\* The object processAndSaveFile returns for an uploaded file: the stored file
\* name is a fresh uuid (here "u" and the upload's number) plus the extension
UploadedImage(originalname, n) ==
    [ fileName     |-> <<"u">> \o IntToStr(n) \o extname(originalname),
      originalName |-> originalname ]

\* A record of parsedCSV.data as the matcher reads it: sku (<<>> when the
\* record has none) and the row index parseProductCSV gives it
ProductRecord(sku, index) == [sku |-> sku, rowIndex |-> index]

\* JavaScript truthiness of a string-valued field
Truthy(s) == s # <<>>

\* Map.prototype.set that drops a later value for a key already present
MapSetKeepFirst(m, k, v) ==
    IF \E i \in 1..Len(m) : m[i].key = k
    THEN m
    ELSE Append(m, [key |-> k, value |-> v])

\* Map.prototype.set: a new key is appended in insertion order; an existing
\* key keeps its position and takes the new value
MapSet(m, k, v) ==
    IF \E i \in 1..Len(m) : m[i].key = k
    THEN LET i == CHOOSE j \in 1..Len(m) : m[j].key = k
         IN  [m EXCEPT ![i] = [key |-> k, value |-> v]]
    ELSE Append(m, [key |-> k, value |-> v])

MapHas(m, k) == \E i \in 1..Len(m) : m[i].key = k
MapGet(m, k) == m[CHOOSE i \in 1..Len(m) : m[i].key = k].value

\* csvData.forEach((product, index) => ...): the SKU lookup map after the
\* first n records
RECURSIVE BuildSkuMap(_, _)
BuildSkuMap(table, n) ==
    IF n = 0 THEN <<>>
    ELSE LET m       == BuildSkuMap(table, n - 1)
             product == table[n]
         IN  IF Truthy(product.sku)
             THEN MapSet(m, toLowerCase(product.sku),
                         product @@ ("csvIndex" :> (n - 1)))
             ELSE m

nameWithoutExt(image) ==
    LET originalName == IF Truthy(image.originalName)
                        THEN image.originalName ELSE image.fileName
    IN  basename(originalName, extname(originalName))

\* Strategy 1: exact SKU match
ExactMatch(skuMap, name) ==
    IF MapHas(skuMap, name) THEN <<MapGet(skuMap, name)>> ELSE <<>>

\* for (const [sku, product] of skuMap.entries()) taken from the last entry
ContainsMatchLast(skuMap, name) ==
    LET hits == {i \in 1..Len(skuMap) : includes(name, skuMap[i].key)}
    IN  IF hits = {} THEN <<>> ELSE <<skuMap[Max(hits)].value>>

\* Strategy 2: SKU contained in filename, first entry in map order
ContainsMatch(skuMap, name) ==
    LET hits == {i \in 1..Len(skuMap) : includes(name, skuMap[i].key)}
    IN  IF hits = {} THEN <<>> ELSE <<skuMap[Min(hits)].value>>

\* Strategy 3: filename contained in SKU, first entry in map order
ReverseContainsMatch(skuMap, name) ==
    LET hits == {i \in 1..Len(skuMap) : includes(skuMap[i].key, name)}
    IN  IF hits = {} THEN <<>> ELSE <<skuMap[Min(hits)].value>>

\* the strategies with the substring search tried before the exact lookup
MatchedProductContainsFirst(skuMap, image) ==
    LET name == toLowerCase(nameWithoutExt(image))
        s2   == ContainsMatch(skuMap, name)
        s1   == ExactMatch(skuMap, name)
    IN  IF s2 # <<>> THEN s2
        ELSE IF s1 # <<>> THEN s1
        ELSE ReverseContainsMatch(skuMap, name)

\* matchedProduct of one image: the three strategies in order
MatchedProduct(skuMap, image) ==
    LET name == toLowerCase(nameWithoutExt(image))
        s1   == ExactMatch(skuMap, name)
        s2   == ContainsMatch(skuMap, name)
    IN  IF s1 # <<>> THEN s1
        ELSE IF s2 # <<>> THEN s2
        ELSE ReverseContainsMatch(skuMap, name)

\* images.forEach(...): the matched list after the first n images
RECURSIVE MatchedList(_, _, _)
MatchedList(imgs, skuMap, n) ==
    IF n = 0 THEN <<>>
    ELSE LET rest == MatchedList(imgs, skuMap, n - 1)
             mp   == MatchedProduct(skuMap, imgs[n])
         IN  IF mp # <<>>
             THEN Append(rest, [image      |-> imgs[n],
                                product    |-> mp[1],
                                matchedSku |-> mp[1].sku])
             ELSE rest

\* an unmatched list that keeps every image, matched or not
UnmatchedImageListAll(imgs, skuMap, n) == SubSeq(imgs, 1, n)

RECURSIVE UnmatchedImageList(_, _, _)
UnmatchedImageList(imgs, skuMap, n) ==
    IF n = 0 THEN <<>>
    ELSE LET rest == UnmatchedImageList(imgs, skuMap, n - 1)
         IN  IF MatchedProduct(skuMap, imgs[n]) # <<>>
             THEN rest
             ELSE Append(rest, imgs[n])

\* the set of matched SKUs without the toLowerCase
MatchedSkusRaw(matched) == {matched[i].matchedSku : i \in 1..Len(matched)}

\* new Set(matched.map(m => m.matchedSku.toLowerCase()))
MatchedSkus(matched) ==
    {toLowerCase(matched[i].matchedSku) : i \in 1..Len(matched)}

\* csvData.forEach(product => ...): the unmatched records among the first n
RECURSIVE UnmatchedProducts(_, _, _)
UnmatchedProducts(table, matched, n) ==
    IF n = 0 THEN <<>>
    ELSE LET rest    == UnmatchedProducts(table, matched, n - 1)
             product == table[n]
         IN  IF Truthy(product.sku)
                /\ toLowerCase(product.sku) \notin MatchedSkus(matched)
             THEN Append(rest, product)
             ELSE rest

\* a one-decimal formatting that truncates instead of rounding
toFixed1Truncating(num, den) ==
    LET tenths == (1000 * num) \div den
    IN  IntToStr(tenths \div 10) \o <<".">> \o IntToStr(tenths % 10)

\* (num / den * 100).toFixed(1): the decimal string with one fractional
\* digit nearest to the value, halves rounded up
toFixed1(num, den) ==
    LET tenths == (2000 * num + den) \div (2 * den)
    IN  IntToStr(tenths \div 10) \o <<".">> \o IntToStr(tenths % 10)

\* the rate without the guard for an empty image list: 0 / 0 is NaN
MatchRateUnguarded(matchedCount, imageCount) ==
    IF imageCount > 0
    THEN [type |-> "string", value |-> toFixed1(matchedCount, imageCount)]
    ELSE [type |-> "string", value |-> <<"N", "a", "N">>]

\* images.length > 0 ? (matched.length / images.length * 100).toFixed(1) : 0
MatchRate(matchedCount, imageCount) ==
    IF imageCount > 0
    THEN [type |-> "string", value |-> toFixed1(matchedCount, imageCount)]
    ELSE [type |-> "number", value |-> 0]

matchImagesToProducts(imgs, table) ==
    LET skuMap  == BuildSkuMap(table, Len(table))
        matched == MatchedList(imgs, skuMap, Len(imgs))
    IN  [ matched           |-> matched,
          unmatchedProducts |-> UnmatchedProducts(table, matched, Len(table)),
          unmatchedImages   |-> UnmatchedImageList(imgs, skuMap, Len(imgs)),
          matchRate         |-> MatchRate(Len(matched), Len(imgs)) ]

----------------------------------------------------------------------------
(* Inputs of the matcher *)

\* file names of uploaded product images, without the extension
BaseNames == {<<"A">>, <<"A", "b">>, <<"b", "A">>}
OriginalNames == {b \o JpgExt : b \in BaseNames}

\* sku values of table rows; <<>> is a row without sku
SkuValues == {<<>>, <<"a">>, <<"A">>, <<"b">>, <<"a", "b">>, <<"b", "a">>}

ImageLists ==
    {[i \in 1..Len(names) |-> UploadedImage(names[i], i)] :
        names \in SeqsUpTo(OriginalNames, MaxImages)}

RecordTables ==
    {[i \in 1..Len(skus) |-> ProductRecord(skus[i], i - 1)] :
        skus \in SeqsUpTo(SkuValues, MaxRecords)}

IdleMatcher  == images = <<>> /\ csvData = <<>> /\ matchResult = <<>>
IdleParser   == csvColumns = <<>> /\ csvRows = <<>> /\ parsedCSV = <<>>
IdleComposer == /\ products = <<>> /\ frameInfo = <<>> /\ icons = <<>>
                /\ layoutCsv = <<>> /\ layouts = <<>>
IdleText     == textRow = <<>> /\ textRegion = <<>> /\ textElements = <<>>
IdleAnalyzer == imageBuffer = <<>> /\ analysis = <<>>
IdleServer   == request = <<>> /\ disk = <<>> /\ response = <<>>

InitMatch ==
    /\ pc = "ready"
    /\ images \in ImageLists
    /\ csvData \in RecordTables
    /\ matchResult = <<>>
    /\ IdleParser
    /\ IdleComposer
    /\ IdleText
    /\ IdleAnalyzer
    /\ IdleServer

MatchImages ==
    /\ pc = "ready"
    /\ pc' = "matched"
    /\ matchResult' = <<matchImagesToProducts(images, csvData)>>
    /\ UNCHANGED <<images, csvData, csvColumns, csvRows, parsedCSV,
                   products, frameInfo, icons, layoutCsv, layouts,
                   textVars, analyzerVars, serverVars>>

NextMatch == MatchImages

SpecMatch == InitMatch /\ [][NextMatch]_vars

----------------------------------------------------------------------------
(* Properties of matchImagesToProducts *)

MatchReturned == pc = "matched"
Matched == matchResult[1].matched
MatchedIdx == 1..Len(Matched)

\* baseName of an image: lower-cased file name without extension
BaseNameOf(image) == toLowerCase(nameWithoutExt(image))

\* rows (1-based) that carry the SKU key k, case-insensitively
RowsWithSku(k) ==
    {i \in 1..Len(csvData) :
        Truthy(csvData[i].sku) /\ toLowerCase(csvData[i].sku) = k}

KnownSkus ==
    {toLowerCase(csvData[i].sku) :
        i \in {j \in 1..Len(csvData) : Truthy(csvData[j].sku)}}

EntriesOf(image) == {k \in MatchedIdx : Matched[k].image = image}
EntryKey(k) == toLowerCase(Matched[k].matchedSku)

\* C1: for every image the three strategies apply in strict order to
\* baseName: an exact SKU wins, else a SKU contained in baseName, else a SKU
\* containing baseName; an image with no hit under any strategy is unmatched.
C1_StrategyOrder ==
    MatchReturned =>
        \A j \in 1..Len(images) :
            LET b       == BaseNameOf(images[j])
                entries == EntriesOf(images[j])
                listed  == \E k \in 1..Len(matchResult[1].unmatchedImages) :
                               matchResult[1].unmatchedImages[k] = images[j]
            IN  IF b \in KnownSkus
                THEN entries # {} /\ \A k \in entries : EntryKey(k) = b
                ELSE IF \E s \in KnownSkus : includes(b, s)
                THEN entries # {}
                     /\ \A k \in entries : includes(b, EntryKey(k))
                ELSE IF \E s \in KnownSkus : includes(s, b)
                THEN entries # {}
                     /\ \A k \in entries : includes(EntryKey(k), b)
                ELSE entries = {} /\ listed

\* C1 witness: an image whose baseName is a known SKU was matched while a
\* record earlier in the table carries a SKU that is a proper substring of it
C1_Witness ==
    /\ MatchReturned
    /\ \E k \in MatchedIdx :
        LET b == BaseNameOf(Matched[k].image)
        IN  /\ EntryKey(k) = b
            /\ \E i \in 1..Len(csvData) :
                /\ Truthy(csvData[i].sku)
                /\ toLowerCase(csvData[i].sku) # b
                /\ includes(b, toLowerCase(csvData[i].sku))
                /\ i < Min(RowsWithSku(b))

\* C2 (as amended): when records share a SKU case-insensitively, an image
\* matched on that SKU is paired with the last such record in table order,
\* and reports that record's own spelling of the SKU.
C2_LastDuplicateWins ==
    MatchReturned =>
        \A k \in MatchedIdx :
            LET last == Max(RowsWithSku(EntryKey(k)))
            IN  /\ Matched[k].product.csvIndex = last - 1
                /\ Matched[k].product.rowIndex = csvData[last].rowIndex
                /\ Matched[k].matchedSku = csvData[last].sku

\* C2 witness: an image was matched on a SKU that several records share
C2_Witness ==
    /\ MatchReturned
    /\ \E k \in MatchedIdx : Cardinality(RowsWithSku(EntryKey(k))) >= 2

\* C2 as stated: the first record of a shared SKU is the one paired
C2_FirstDuplicateWins ==
    MatchReturned =>
        \A k \in MatchedIdx :
            Matched[k].product.csvIndex = Min(RowsWithSku(EntryKey(k))) - 1

\* C3: when no SKU equals baseName and several SKUs are contained in it
\* (or, failing that, several contain it), the SKU selected is the hit that
\* first appears earliest in the record table.
C3_TieBreakByTableOrder ==
    MatchReturned =>
        \A k \in MatchedIdx :
            LET b  == BaseNameOf(Matched[k].image)
                h2 == {s \in KnownSkus : includes(b, s)}
                h3 == {s \in KnownSkus : includes(s, b)}
                firstOf(hits) ==
                    /\ EntryKey(k) \in hits
                    /\ \A s \in hits :
                        Min(RowsWithSku(EntryKey(k))) <= Min(RowsWithSku(s))
            IN  b \notin KnownSkus =>
                    IF h2 # {} THEN firstOf(h2) ELSE firstOf(h3)

\* C3 witness: an image matched by containment with two candidate SKUs
C3_Witness ==
    /\ MatchReturned
    /\ \E k \in MatchedIdx :
        LET b == BaseNameOf(Matched[k].image)
        IN  /\ b \notin KnownSkus
            /\ Cardinality({s \in KnownSkus : includes(b, s)}) >= 2

\* C4 (as amended): unmatchedProducts lists, in table order, exactly the
\* records that have a SKU which is not, case-insensitively, the matchedSku
\* of any matched entry.
C4_UnmatchedProductsBySku ==
    MatchReturned =>
        LET unmatched == matchResult[1].unmatchedProducts
            expected  == {i \in 1..Len(csvData) :
                            /\ Truthy(csvData[i].sku)
                            /\ \A k \in MatchedIdx :
                                EntryKey(k) # toLowerCase(csvData[i].sku)}
        IN  /\ {unmatched[u].rowIndex : u \in 1..Len(unmatched)}
                = {csvData[i].rowIndex : i \in expected}
            /\ Len(unmatched) = Cardinality(expected)
            /\ \A u \in 1..Len(unmatched) :
                /\ unmatched[u] = csvData[unmatched[u].rowIndex + 1]
                /\ \A v \in 1..Len(unmatched) :
                    u < v => unmatched[u].rowIndex < unmatched[v].rowIndex

\* C4 witness: some record is reported unmatched and some record is matched
C4_Witness ==
    /\ MatchReturned
    /\ Len(matchResult[1].unmatchedProducts) >= 1
    /\ Len(Matched) >= 1

\* C4 as stated: a record is in unmatchedProducts iff no matched entry
\* pairs an image with that record
C4_UnmatchedIffNeverPaired ==
    MatchReturned =>
        \A i \in 1..Len(csvData) :
            (\E u \in 1..Len(matchResult[1].unmatchedProducts) :
                matchResult[1].unmatchedProducts[u] = csvData[i])
            <=> ~ \E k \in MatchedIdx : Matched[k].product.csvIndex = i - 1

DigitValue(c) == (CHOOSE d \in 1..10 : Digits[d] = c) - 1
IsDigit(c) == \E d \in 1..10 : Digits[d] = c

RECURSIVE StrToInt(_)
StrToInt(s) ==
    IF Len(s) = 0 THEN 0
    ELSE 10 * StrToInt(SubSeq(s, 1, Len(s) - 1)) + DigitValue(s[Len(s)])

\* a decimal string with exactly one fractional digit
IsOneDecimal(s) ==
    /\ Len(s) >= 3
    /\ s[Len(s) - 1] = "."
    /\ \A i \in (1..Len(s)) \ {Len(s) - 1} : IsDigit(s[i])
    /\ (Len(s) > 3 => s[1] # "0")

\* the value of a one-decimal string, in tenths
TenthsOf(s) == 10 * StrToInt(SubSeq(s, 1, Len(s) - 2)) + DigitValue(s[Len(s)])

Abs(x) == IF x < 0 THEN -x ELSE x

\* C5 (as amended): with at least one image matchRate is the one-decimal
\* string of matched.length / images.length * 100 rounded to the nearest
\* tenth ("50.0" for 1 match in 2 images), whose value lies between 0 and
\* 100; with no images it is the number 0.
C5_MatchRateOneDecimalString ==
    MatchReturned =>
        LET rate == matchResult[1].matchRate
            n    == Len(images)
            m    == Len(Matched)
        IN  IF n > 0
            THEN /\ rate.type = "string"
                 /\ IsOneDecimal(rate.value)
                 /\ 2 * Abs(TenthsOf(rate.value) * n - 1000 * m) <= n
                 /\ TenthsOf(rate.value) >= 0
                 /\ TenthsOf(rate.value) <= 1000
                 /\ (n = 2 /\ m = 1 => rate.value = <<"5", "0", ".", "0">>)
            ELSE rate.type = "number" /\ rate.value = 0

\* C5 witness: two images, one matched
C5_Witness ==
    /\ MatchReturned
    /\ Len(images) = 2
    /\ Len(Matched) = 1
    /\ matchResult[1].matchRate.value = <<"5", "0", ".", "0">>

\* C5 as stated: matchRate is a number in every case
C5_MatchRateIsNumber ==
    MatchReturned =>
        LET rate == matchResult[1].matchRate
            n    == Len(images)
            m    == Len(Matched)
        IN  /\ rate.type = "number"
            /\ rate.value >= 0
            /\ rate.value <= 100
            /\ (n > 0 => 2 * Abs(10 * rate.value * n - 1000 * m) <= n)
            /\ (n = 0 => rate.value = 0)

----------------------------------------------------------------------------
(* FileHandler.parseProductCSV *)

\* columnMapping, in declaration order: the canonical key and its aliases
columnMapping ==
    << [key |-> "sku",
        variations |-> <<"sku", "product_sku", "item_sku", "code", "product_code">>],
       [key |-> "brand",
        variations |-> <<"brand", "brand_name", "manufacturer">>],
       [key |-> "product_name",
        variations |-> <<"product_name", "name", "title", "product_title", "item_name">>],
       [key |-> "full_price",
        variations |-> <<"full_price", "original_price", "price", "msrp", "retail_price">>],
       [key |-> "discounted_price",
        variations |-> <<"discounted_price", "sale_price", "promo_price", "special_price">>],
       [key |-> "discount_percent",
        variations |-> <<"discount_percent", "discount", "discount_%", "off">>],
       [key |-> "description",
        variations |-> <<"description", "product_description", "details">>],
       [key |-> "category",
        variations |-> <<"category", "product_category", "type">>],
       [key |-> "image_url",
        variations |-> <<"image_url", "image", "product_image", "photo">>] >>

\* row[variation] !== undefined && row[variation] !== ''
HasValue(row, variation) ==
    variation \in DOMAIN row /\ row[variation] # <<>>

\* for (const variation of variations) { if (...) { ...; break; } }: the
\* first alias of the list that has a value in the row, as an option
FirstVariation(row, variations) ==
    LET hits == {v \in 1..Len(variations) : HasValue(row, variations[v])}
    IN  IF hits = {} THEN <<>> ELSE <<variations[Min(hits)]>>

\* the canonical keys the alias loop sets on normalizedRow
RECURSIVE MappedFields(_, _)
MappedFields(row, n) ==
    IF n = 0 THEN <<>>
    ELSE LET rest  == MappedFields(row, n - 1)
             first == FirstVariation(row, columnMapping[n].variations)
         IN  IF first # <<>>
             THEN (columnMapping[n].key :> row[first[1]]) @@ rest
             ELSE rest

\* Object.assign(target, source): the source's own keys overwrite the target's
ObjectAssign(target, source) == source @@ target

\* result.data.map((row, index) => ...): _rowIndex, the mapped canonical
\* fields, then the original columns assigned over them
NormalizedRow(row, index) ==
    ObjectAssign(MappedFields(row, Len(columnMapping)) @@ ("_rowIndex" :> index),
                 row)

parseProductCSV(fields, data) ==
    [ success  |-> TRUE,
      data     |-> [i \in 1..Len(data) |-> NormalizedRow(data[i], i - 1)],
      columns  |-> fields,
      rowCount |-> Len(data) ]

----------------------------------------------------------------------------
(* Inputs of the parser: what Papa.parse hands back for a file whose header
   row, after transformHeader, is a selection of HeaderPool *)

HeaderPool == <<"sku", "product_sku", "code", "name">>
CellValues == {<<>>, <<"a">>, <<"b">>}

\* the headers of the pool selected by S, in file order
RECURSIVE PickHeaders(_, _)
PickHeaders(S, n) ==
    IF n = 0 THEN <<>>
    ELSE IF n \in S
         THEN Append(PickHeaders(S, n - 1), HeaderPool[n])
         ELSE PickHeaders(S, n - 1)

InitCSV ==
    /\ pc = "ready"
    /\ \E S \in SUBSET (1..Len(HeaderPool)) :
        /\ csvColumns = PickHeaders(S, Len(HeaderPool))
        /\ csvRows \in SeqsUpTo([{HeaderPool[i] : i \in S} -> CellValues], MaxCsvRows)
    /\ parsedCSV = <<>>
    /\ IdleMatcher
    /\ IdleComposer
    /\ IdleText
    /\ IdleAnalyzer
    /\ IdleServer

ParseProductCSV ==
    /\ pc = "ready"
    /\ pc' = "parsed"
    /\ parsedCSV' = <<parseProductCSV(csvColumns, csvRows)>>
    /\ UNCHANGED <<images, csvData, matchResult, csvColumns, csvRows,
                   products, frameInfo, icons, layoutCsv, layouts,
                   textVars, analyzerVars, serverVars>>

NextCSV == ParseProductCSV

SpecCSV == InitCSV /\ [][NextCSV]_vars

\* C6: for every parsed row and every canonical field, the value stored
\* under the canonical key of the normalized record is the value of the
\* first alias, in declaration order, that has a non-empty value in the row.
C6_FirstAliasWins ==
    pc = "parsed" =>
        \A i \in 1..Len(csvRows) :
            \A f \in 1..Len(columnMapping) :
                LET aliases  == columnMapping[f].variations
                    nonEmpty == {v \in 1..Len(aliases) :
                                    /\ aliases[v] \in DOMAIN csvRows[i]
                                    /\ csvRows[i][aliases[v]] # <<>>}
                    record   == parsedCSV[1].data[i]
                IN  nonEmpty # {} =>
                        /\ columnMapping[f].key \in DOMAIN record
                        /\ record[columnMapping[f].key]
                              = csvRows[i][aliases[Min(nonEmpty)]]

----------------------------------------------------------------------------
(* SmartLayout: layout elements.  Positions are percentages of the canvas;
   the model keeps them exact as integers in units of 1/Scale percent, and
   Scale is divisible by every grid size the bounds allow. *)

Scale == 10 * 2520
Pct(n) == n * Scale

Position(x, y, width, height) ==
    [x |-> x, y |-> y, width |-> width, height |-> height]

FullBleed == Position(Pct(0), Pct(0), Pct(100), Pct(100))

\* an image element painted at the level of the frame
ImageElementAtFrameLevel(source, position) ==
    [type |-> "image", source |-> source, position |-> position, zIndex |-> 0]

ImageElement(source, position) ==
    [type |-> "image", source |-> source, position |-> position, zIndex |-> 1]

IconElement(source, position) ==
    [type |-> "icon", source |-> source, position |-> position, zIndex |-> 2]

\* a frame element that is painted at the level of the product images
FrameElementAsImage(frame) ==
    IF frame # <<>>
    THEN <<[type |-> "frame", source |-> frame[1].url,
            position |-> FullBleed, zIndex |-> 1]>>
    ELSE <<>>

\* if (frameInfo) elements.push({type: 'frame', ...}): zero or one element
FrameElement(frame) ==
    IF frame # <<>>
    THEN <<[type |-> "frame", source |-> frame[1].url,
            position |-> FullBleed, zIndex |-> 0]>>
    ELSE <<>>

TextElement(content, dataField, position, style, zIndex) ==
    [type |-> "text", content |-> content, dataField |-> dataField,
     position |-> position, style |-> style, zIndex |-> zIndex]

\* text that is not bound to a CSV field
PlainText(content, position, style, zIndex) ==
    [type |-> "text", content |-> content,
     position |-> position, style |-> style, zIndex |-> zIndex]

\* String.prototype.replace(/\.(jpg|jpeg|png|webp)$/i, '') on a lower-cased name
StripImageExtension(name) ==
    LET exts == {<<".", "j", "p", "g">>, <<".", "j", "p", "e", "g">>,
                 <<".", "p", "n", "g">>, <<".", "w", "e", "b", "p">>}
        hit  == {e \in exts : endsWith(name, e)}
    IN  IF hit = {} THEN name
        ELSE LET e == CHOOSE x \in hit : TRUE
             IN  SubSeq(name, 1, Len(name) - Len(e))

\* a lookup that compares the file name as it is, without lower-casing it
matchProductToCSVCaseSensitive(product, csv) ==
    IF csv = <<>> \/ Len(csv[1]) = 0 THEN <<>>
    ELSE LET rows     == csv[1]
             fileName == StripImageExtension(product.fileName)
             hits == {r \in 1..Len(rows) :
                        /\ Truthy(rows[r].sku)
                        /\ \/ includes(fileName, rows[r].sku)
                           \/ includes(rows[r].sku, fileName)}
         IN  IF hits = {} THEN <<>> ELSE <<rows[Min(hits)]>>

\* SmartLayout.matchProductToCSV: the first row, in table order, whose sku is
\* contained in the file name or contains it; an option
matchProductToCSV(product, csv) ==
    IF csv = <<>> \/ Len(csv[1]) = 0 THEN <<>>
    ELSE LET rows          == csv[1]
             fileNameLower == StripImageExtension(toLowerCase(product.fileName))
             hits == {r \in 1..Len(rows) :
                        /\ Truthy(rows[r].sku)
                        /\ \/ includes(fileNameLower, toLowerCase(rows[r].sku))
                           \/ includes(toLowerCase(rows[r].sku), fileNameLower)}
         IN  IF hits = {} THEN <<>> ELSE <<rows[Min(hits)]>>

\* a price block that shows the discounted price alone when both are present
PriceElementsDiscountOnly(csvRow, position) ==
    LET priceY == position.y + (IF Truthy(csvRow.brand) THEN Pct(13) ELSE Pct(8))
    IN  IF ~ (Truthy(csvRow.discounted_price) \/ Truthy(csvRow.full_price))
        THEN <<>>
        ELSE << TextElement(
                    IF Truthy(csvRow.discounted_price)
                    THEN csvRow.discounted_price ELSE csvRow.full_price,
                    IF Truthy(csvRow.discounted_price)
                    THEN "discounted_price" ELSE "full_price",
                    Position(position.x, priceY, position.width, Pct(5)),
                    [fontSize |-> 16, color |-> "#000000",
                     fontWeight |-> "bold", textAlign |-> "center"],
                    10) >>

\* the price elements of createTextElementsFromCSV
PriceElements(csvRow, position) ==
    LET priceY == position.y + (IF Truthy(csvRow.brand) THEN Pct(13) ELSE Pct(8))
    IN  IF ~ (Truthy(csvRow.discounted_price) \/ Truthy(csvRow.full_price))
        THEN <<>>
        ELSE IF Truthy(csvRow.discounted_price) /\ Truthy(csvRow.full_price)
        THEN << TextElement(csvRow.full_price, "full_price",
                    Position(position.x, priceY, position.width \div 2, Pct(5)),
                    [fontSize |-> 14, color |-> "#999999",
                     textDecoration |-> "line-through", textAlign |-> "right"],
                    10),
                TextElement(csvRow.discounted_price, "discounted_price",
                    Position(position.x + position.width \div 2, priceY,
                             position.width \div 2, Pct(5)),
                    [fontSize |-> 16, color |-> "#E53E3E",
                     fontWeight |-> "bold", textAlign |-> "left"],
                    10) >>
        ELSE << TextElement(
                    IF Truthy(csvRow.discounted_price)
                    THEN csvRow.discounted_price ELSE csvRow.full_price,
                    IF Truthy(csvRow.discounted_price)
                    THEN "discounted_price" ELSE "full_price",
                    Position(position.x, priceY, position.width, Pct(5)),
                    [fontSize |-> 16, color |-> "#000000",
                     fontWeight |-> "bold", textAlign |-> "center"],
                    10) >>

\* SmartLayout.createTextElementsFromCSV for a matched row
createTextElementsFromCSV(csvRow, position) ==
    (IF Truthy(csvRow.product_name)
     THEN << TextElement(csvRow.product_name, "product_name",
                 Position(position.x, position.y, position.width, Pct(8)),
                 [fontSize |-> 16, color |-> "#000000",
                  fontWeight |-> "bold", textAlign |-> "center"],
                 10) >>
     ELSE <<>>)
    \o
    (IF Truthy(csvRow.brand)
     THEN << TextElement(csvRow.brand, "brand",
                 Position(position.x, position.y + Pct(8), position.width, Pct(5)),
                 [fontSize |-> 12, color |-> "#666666", textAlign |-> "center"],
                 10) >>
     ELSE <<>>)
    \o
    PriceElements(csvRow, position)
    \o
    (IF Truthy(csvRow.discount_percent)
     THEN << [type |-> "badge",
              content |-> <<"-">> \o csvRow.discount_percent \o <<"%">>,
              dataField |-> "discount_percent",
              position |-> Position(position.x + position.width - Pct(15),
                                    position.y - Pct(5), Pct(15), Pct(8)),
              style |-> [fontSize |-> 14, color |-> "#FFFFFF",
                         backgroundColor |-> "#E53E3E", fontWeight |-> "bold",
                         textAlign |-> "center", borderRadius |-> "4px"],
              zIndex |-> 11] >>
     ELSE <<>>)

\* the CSV text of a product in a region, <<>> when csvData is null or no row matches
CsvTextFor(product, csv, region) ==
    LET csvRow == matchProductToCSV(product, csv)
    IN  IF csv # <<>> /\ csvRow # <<>>
        THEN createTextElementsFromCSV(csvRow[1], region)
        ELSE <<>>

----------------------------------------------------------------------------
(* SmartLayout.createGridElements *)

\* a grid size rounded down instead of up
gridSizeFloor(n) == CHOOSE g \in 0..n : g * g <= n /\ (g + 1) * (g + 1) > n

\* Math.ceil(Math.sqrt(n))
gridSizeOf(n) == CHOOSE g \in 0..n : g * g >= n /\ \A h \in 0..(g - 1) : h * h < n

\* the image of product i (0-based) in its cell, and its CSV text below it
GridCell(prods, csv, i, gridSize) ==
    LET row        == i \div gridSize
        col        == i % gridSize
        cellWidth  == Pct(96) \div gridSize
        cellHeight == Pct(96) \div gridSize
        x          == col * (Pct(100) \div gridSize) + Pct(2)
        y          == row * (Pct(100) \div gridSize) + Pct(2)
    IN  << ImageElement(prods[i + 1].url,
               Position(x, y, (cellWidth * 9) \div 10, (cellHeight * 6) \div 10)) >>
        \o CsvTextFor(prods[i + 1], csv,
               Position(x, y + (cellHeight * 6) \div 10,
                        (cellWidth * 9) \div 10, (cellHeight * 3) \div 10))

\* for (let i = 0; i < products.length; i++): the elements of the first n cells
RECURSIVE GridCells(_, _, _, _)
GridCells(prods, csv, n, gridSize) ==
    IF n = 0 THEN <<>>
    ELSE GridCells(prods, csv, n - 1, gridSize)
         \o GridCell(prods, csv, n - 1, gridSize)

createGridElements(prods, frame, csv) ==
    GridCells(prods, csv, Len(prods), gridSizeOf(Len(prods)))
    \o FrameElement(frame)

----------------------------------------------------------------------------
(* SmartLayout.createBannerElements, createStoryElements, createCarouselSlides *)

MinOf(a, b) == IF a < b THEN a ELSE b

createBannerElements(prods, frame, icns, csv) ==
    FrameElement(frame)
    \o (IF Len(prods) > 0
        THEN << ImageElement(prods[1].url,
                    Position(Pct(60), Pct(10), Pct(35), Pct(60))) >>
             \o CsvTextFor(prods[1], csv,
                    Position(Pct(60), Pct(72), Pct(35), Pct(20)))
        ELSE <<>>)
    \o [j \in 1..(MinOf(Len(prods), 4) - 1) |->
            ImageElement(prods[j + 1].url,
                Position(Pct(5), Pct(20 + (j - 1) * 18), Pct(15), Pct(15)))]
    \o [j \in 1..MinOf(Len(icns), 3) |->
            IconElement(icns[j].url,
                Position(Pct(25), Pct(20 + (j - 1) * 25), Pct(8), Pct(8)))]

StoryDefaultText ==
    PlainText("Your Product Title Here",
        Position(Pct(10), Pct(70), Pct(80), Pct(10)),
        [fontSize |-> 24, color |-> "#000000",
         fontWeight |-> "bold", textAlign |-> "center"],
        2)

createStoryElements(prods, frame, icns, csv) ==
    FrameElement(frame)
    \o (IF Len(prods) > 0
        THEN << ImageElement(prods[1].url,
                    Position(Pct(10), Pct(15), Pct(80), Pct(50))) >>
             \o (IF csv # <<>> /\ matchProductToCSV(prods[1], csv) # <<>>
                 THEN createTextElementsFromCSV(matchProductToCSV(prods[1], csv)[1],
                          Position(Pct(10), Pct(68), Pct(80), Pct(20)))
                 ELSE <<StoryDefaultText>>)
        ELSE <<>>)

TitleSlide ==
    [type |-> "title",
     elements |-> << PlainText("Product Collection",
                        Position(Pct(10), Pct(40), Pct(80), Pct(20)),
                        [fontSize |-> 36, color |-> "#000000",
                         fontWeight |-> "bold", textAlign |-> "center"],
                        1) >>]

\* the caption `Product ${i + 1}` of slide i (0-based)
CarouselDefaultText(i) ==
    PlainText(<<"P", "r", "o", "d", "u", "c", "t", " ">> \o IntToStr(i + 1),
        Position(Pct(10), Pct(75), Pct(80), Pct(10)),
        [fontSize |-> 18, color |-> "#333333", textAlign |-> "center"],
        2)

ProductSlide(prods, csv, i) ==
    [type |-> "product",
     elements |->
        << ImageElement(prods[i + 1].url,
               Position(Pct(10), Pct(15), Pct(80), Pct(55))) >>
        \o (IF csv # <<>> /\ matchProductToCSV(prods[i + 1], csv) # <<>>
            THEN createTextElementsFromCSV(matchProductToCSV(prods[i + 1], csv)[1],
                     Position(Pct(10), Pct(72), Pct(80), Pct(20)))
            ELSE <<CarouselDefaultText(i)>>)]

createCarouselSlides(prods, frame, csv) ==
    <<TitleSlide>> \o [j \in 1..Len(prods) |-> ProductSlide(prods, csv, j - 1)]

----------------------------------------------------------------------------
(* SmartLayout.generateLayoutRecommendations *)

\* a grid priority whose thresholds are strict
calculateGridPriorityStrict(productCount) ==
    IF productCount > 9 THEN 5
    ELSE IF productCount > 6 THEN 4
    ELSE IF productCount > 4 THEN 3
    ELSE IF productCount > 2 THEN 2
    ELSE 1

calculateGridPriority(productCount) ==
    IF productCount >= 9 THEN 5
    ELSE IF productCount >= 6 THEN 4
    ELSE IF productCount >= 4 THEN 3
    ELSE IF productCount >= 2 THEN 2
    ELSE 1

\* Array.prototype.sort((a, b) => b.priority - a.priority): stable, so
\* layouts of equal priority keep the order in which they were pushed
RECURSIVE SortByPriority(_)
SortByPriority(ls) ==
    IF Len(ls) <= 1 THEN ls
    ELSE LET sorted == SortByPriority(SubSeq(ls, 1, Len(ls) - 1))
             last   == ls[Len(ls)]
             before == {i \in 1..Len(sorted) : sorted[i].priority >= last.priority}
             at     == IF before = {} THEN 0 ELSE Max(before)
         IN  SubSeq(sorted, 1, at) \o <<last>> \o SubSeq(sorted, at + 1, Len(sorted))

\* a composer whose layouts array is shared between calls instead of being
\* created by each call
generateLayoutRecommendationsShared(prods, frame, icns, csv) ==
    SortByPriority(layouts \o
        << [type |-> "grid", name |-> "Product Grid",
            recommendedSize |-> [width |-> 1200, height |-> 1200],
            elements |-> createGridElements(prods, frame, csv),
            priority |-> calculateGridPriority(Len(prods))],
           [type |-> "banner", name |-> "Campaign Banner",
            recommendedSize |-> [width |-> 1200, height |-> 630],
            elements |-> createBannerElements(prods, frame, icns, csv),
            priority |-> 4],
           [type |-> "story", name |-> "Story Format",
            recommendedSize |-> [width |-> 1080, height |-> 1920],
            elements |-> createStoryElements(prods, frame, icns, csv),
            priority |-> 3],
           [type |-> "carousel", name |-> "Product Carousel",
            recommendedSize |-> [width |-> 1080, height |-> 1080],
            slides |-> createCarouselSlides(prods, frame, csv),
            priority |-> 5] >>)

generateLayoutRecommendations(prods, frame, icns, csv) ==
    SortByPriority(
        << [type |-> "grid", name |-> "Product Grid",
            recommendedSize |-> [width |-> 1200, height |-> 1200],
            elements |-> createGridElements(prods, frame, csv),
            priority |-> calculateGridPriority(Len(prods))],
           [type |-> "banner", name |-> "Campaign Banner",
            recommendedSize |-> [width |-> 1200, height |-> 630],
            elements |-> createBannerElements(prods, frame, icns, csv),
            priority |-> 4],
           [type |-> "story", name |-> "Story Format",
            recommendedSize |-> [width |-> 1080, height |-> 1920],
            elements |-> createStoryElements(prods, frame, icns, csv),
            priority |-> 3],
           [type |-> "carousel", name |-> "Product Carousel",
            recommendedSize |-> [width |-> 1080, height |-> 1080],
            slides |-> createCarouselSlides(prods, frame, csv),
            priority |-> 5] >>)

----------------------------------------------------------------------------
(* Inputs of the composer *)

Url(category, fileName) == <<"/", category, "/">> \o fileName

\* a product image of a session: the first `named` products carry the SKU "a"
\* in their file name (renamed to SKU), the others a uuid
ProductImage(i, named) ==
    LET fileName == (IF i <= named THEN <<"A">> ELSE <<"u">>)
                    \o IntToStr(i) \o JpgExt
    IN  [fileName |-> fileName, url |-> Url("products", fileName)]

ProductLists ==
    {[i \in 1..n |-> ProductImage(i, named)] :
        n \in 0..MaxProducts, named \in 0..MaxProducts}

IconLists ==
    {[i \in 1..n |->
        [fileName |-> <<"i">> \o IntToStr(i),
         url |-> Url("icons", <<"i">> \o IntToStr(i))]] : n \in 0..MaxIcons}

Frames == {<<>>, <<[fileName |-> <<"f">>, url |-> Url("frame", <<"f">>)]>>}

\* rows of a product table as the composer reads them
LayoutRecords ==
    [ sku              : {<<"a">>},
      product_name     : {<<>>, <<"n">>},
      brand            : {<<>>, <<"b">>},
      full_price       : {<<>>, <<"9">>},
      discounted_price : {<<>>, <<"7">>},
      discount_percent : {<<>>, <<"2">>} ]

\* the csvData argument: null, an empty table, or a table of one row
LayoutTables == {<<>>, <<(<<>>)>>} \cup {<< <<r>> >> : r \in LayoutRecords}

InitCompose ==
    /\ pc = "ready"
    /\ products \in ProductLists
    /\ frameInfo \in Frames
    /\ icons \in IconLists
    /\ layoutCsv \in LayoutTables
    /\ layouts = <<>>
    /\ IdleMatcher
    /\ IdleParser
    /\ IdleText
    /\ IdleAnalyzer
    /\ IdleServer

GenerateLayouts ==
    /\ pc = "ready"
    /\ pc' = "composed"
    /\ layouts' = generateLayoutRecommendations(products, frameInfo, icons, layoutCsv)
    /\ UNCHANGED <<images, csvData, matchResult, csvColumns, csvRows, parsedCSV,
                   products, frameInfo, icons, layoutCsv,
                   textVars, analyzerVars, serverVars>>

NextCompose == GenerateLayouts

SpecCompose == InitCompose /\ [][NextCompose]_vars

----------------------------------------------------------------------------
(* Properties of generateLayoutRecommendations *)

Composed == pc = "composed"
LayoutTypes == {"grid", "banner", "story", "carousel"}
LayoutOf(t) == layouts[CHOOSE i \in 1..Len(layouts) : layouts[i].type = t]

IsImageElement(e) == e.type = "image"
IsTextual(e) == e.type \in {"text", "badge"}

\* the element lists of the returned layouts: grid, banner, story and every
\* carousel slide
ElementLists ==
    {LayoutOf("grid").elements, LayoutOf("banner").elements,
     LayoutOf("story").elements}
    \cup {LayoutOf("carousel").slides[k].elements :
            k \in 1..Len(LayoutOf("carousel").slides)}

\* C7: four layouts, one of each type, ordered by non-increasing priority;
\* banner 4, story 3, carousel 5, grid by product count
\* (>=9 -> 5, >=6 -> 4, >=4 -> 3, >=2 -> 2, else 1).
C7_FourLayoutsByPriority ==
    Composed =>
        LET n == Len(products)
        IN  /\ Len(layouts) = 4
            /\ \A t \in LayoutTypes :
                Cardinality({i \in 1..Len(layouts) : layouts[i].type = t}) = 1
            /\ \A i \in 1..(Len(layouts) - 1) :
                layouts[i].priority >= layouts[i + 1].priority
            /\ LayoutOf("banner").priority = 4
            /\ LayoutOf("story").priority = 3
            /\ LayoutOf("carousel").priority = 5
            /\ LayoutOf("grid").priority =
                (CASE n >= 9 -> 5
                   [] n >= 6 /\ n < 9 -> 4
                   [] n >= 4 /\ n < 6 -> 3
                   [] n >= 2 /\ n < 4 -> 2
                   [] OTHER -> 1)

\* C7 witness: nine products, the grid reaches priority 5 and the list is
\* still headed by a priority-5 layout and ended by the story
C7_Witness ==
    /\ Composed
    /\ Len(products) = 9
    /\ LayoutOf("grid").priority = 5
    /\ layouts[1].priority = 5
    /\ layouts[4].type = "story"

\* C8: for n >= 1 products the grid uses the smallest gridSize g with
\* g*g >= n; the image of product i (0-based) is at column i mod g, row
\* i div g, x = column*(100/g)+2, y = row*(100/g)+2; no two products share
\* a cell; 4 products give g = 2 and product 2 at row 1, column 0.
C8_GridPlacement ==
    Composed /\ Len(products) >= 1 =>
        LET n    == Len(products)
            imgs == SelectSeq(LayoutOf("grid").elements, IsImageElement)
        IN  /\ Len(imgs) = n
            /\ \E g \in 1..n :
                /\ g * g >= n
                /\ (g - 1) * (g - 1) < n
                /\ (n = 4 => g = 2)
                /\ \A i \in 0..(n - 1) :
                    /\ imgs[i + 1].source = products[i + 1].url
                    /\ imgs[i + 1].position.x * g
                          = (i % g) * Pct(100) + Pct(2) * g
                    /\ imgs[i + 1].position.y * g
                          = (i \div g) * Pct(100) + Pct(2) * g
            /\ \A i, j \in 1..n :
                i # j => <<imgs[i].position.x, imgs[i].position.y>>
                          # <<imgs[j].position.x, imgs[j].position.y>>

\* C8 witness: four products; product 2 is at row 1, column 0 of a 2x2 grid
C8_Witness ==
    /\ Composed
    /\ Len(products) = 4
    /\ LET imgs == SelectSeq(LayoutOf("grid").elements, IsImageElement)
       IN  /\ imgs[3].source = products[3].url
           /\ imgs[3].position.x = Pct(2)
           /\ imgs[3].position.y = Pct(52)

\* C9 (as amended): in every layout and carousel slide a frame has zIndex 0,
\* an image zIndex 1, an icon zIndex 2, a text or badge built from a CSV
\* record zIndex >= 10; a placeholder text (story title, "Product n",
\* carousel title) has zIndex 2, or 1 on the title slide, which is still
\* above every frame and image of its list.
C9_ZIndexByKind ==
    Composed =>
        \A els \in ElementLists :
            \A i \in 1..Len(els) :
                LET e == els[i]
                IN  /\ e.type = "frame" => e.zIndex = 0
                    /\ e.type = "image" => e.zIndex = 1
                    /\ e.type = "icon" => e.zIndex = 2
                    /\ e.type = "badge" => e.zIndex >= 10
                    /\ e.type = "text" =>
                        IF "dataField" \in DOMAIN e
                        THEN e.zIndex >= 10
                        ELSE /\ e.zIndex \in {1, 2}
                             /\ e.zIndex = 1 => els = TitleSlide.elements
                    /\ IsTextual(e) =>
                        \A j \in 1..Len(els) :
                            els[j].type \in {"frame", "image"}
                                => els[j].zIndex < e.zIndex

\* C9 witness: a frame, an icon, an image with CSV text and badge, and a
\* slide with a placeholder caption all occur in one result
C9_Witness ==
    /\ Composed
    /\ \E i \in 1..Len(LayoutOf("banner").elements) :
        LayoutOf("banner").elements[i].type = "icon"
    /\ \E i \in 1..Len(LayoutOf("banner").elements) :
        LayoutOf("banner").elements[i].type = "frame"
    /\ \E i \in 1..Len(LayoutOf("story").elements) :
        LayoutOf("story").elements[i].type = "badge"
    /\ \E k \in 1..Len(LayoutOf("carousel").slides) :
        \E i \in 1..Len(LayoutOf("carousel").slides[k].elements) :
            LET e == LayoutOf("carousel").slides[k].elements[i]
            IN  e.type = "text" /\ "dataField" \notin DOMAIN e /\ e.zIndex = 2

\* C9 as stated: every text or badge element has zIndex >= 10
C9_TextAlwaysAtLeastTen ==
    Composed =>
        \A els \in ElementLists :
            \A i \in 1..Len(els) :
                LET e == els[i]
                IN  /\ e.type = "frame" => e.zIndex = 0
                    /\ e.type = "image" => e.zIndex = 1
                    /\ e.type = "icon" => e.zIndex = 2
                    /\ IsTextual(e) => e.zIndex >= 10

\* C10: with a frame supplied, each of the grid, banner and story lists has
\* exactly one element with zIndex 0, a full-bleed frame element whose
\* source is the frame's url; without a frame no element has zIndex 0.
C10_OneFramePerLayout ==
    Composed =>
        \A t \in {"grid", "banner", "story"} :
            LET els   == LayoutOf(t).elements
                zeros == {i \in 1..Len(els) : els[i].zIndex = 0}
            IN  IF frameInfo # <<>>
                THEN /\ Cardinality(zeros) = 1
                     /\ \A i \in zeros :
                        /\ els[i].type = "frame"
                        /\ els[i].source = frameInfo[1].url
                        /\ els[i].position
                              = [x |-> 0, y |-> 0,
                                 width |-> Pct(100), height |-> Pct(100)]
                ELSE zeros = {}

\* C10 witness: a frame together with several products, icons and CSV text
C10_Witness ==
    /\ Composed
    /\ frameInfo # <<>>
    /\ Len(products) >= 4
    /\ Len(icons) >= 3
    /\ \E i \in 1..Len(LayoutOf("grid").elements) :
        IsTextual(LayoutOf("grid").elements[i])
    /\ Len(LayoutOf("grid").elements) > Len(products) + 1
    /\ Len(LayoutOf("banner").elements) >= 8

----------------------------------------------------------------------------
(* Claims about the text block and the canvas *)

InsideCanvas(e) ==
    /\ e.position.x >= 0
    /\ e.position.y >= 0
    /\ e.position.x + e.position.width <= Pct(100)
    /\ e.position.y + e.position.height <= Pct(100)

\* C11: every element of every layout and carousel slide lies inside the
\* canvas: x >= 0, y >= 0, x + width <= 100 and y + height <= 100 (percent).
C11_ElementsInsideCanvas ==
    Composed =>
        \A els \in ElementLists :
            \A i \in 1..Len(els) : InsideCanvas(els[i])

\* the product a product image element shows (urls are unique per session)
ProductOfImage(e) == CHOOSE p \in 1..Len(products) : products[p].url = e.source

\* the record of the supplied table that belongs to product p, as an option:
\* the first row with a SKU that the lower-cased file name without its image
\* extension contains, or that contains it
RecordOf(p) ==
    IF layoutCsv = <<>> THEN <<>>
    ELSE LET rows == layoutCsv[1]
             name == StripImageExtension(toLowerCase(products[p].fileName))
             hits == {r \in 1..Len(rows) :
                        /\ rows[r].sku # <<>>
                        /\ \/ includes(name, toLowerCase(rows[r].sku))
                           \/ includes(toLowerCase(rows[r].sku), name)}
         IN  IF hits = {} THEN <<>>
             ELSE <<rows[CHOOSE r \in hits : \A q \in hits : r <= q]>>

\* what the text block of a record shows, in order: <<kind, field, content>>
CaptionOf(rec) ==
    (IF rec.product_name # <<>>
     THEN << <<"text", "product_name", rec.product_name>> >> ELSE <<>>)
    \o (IF rec.brand # <<>> THEN << <<"text", "brand", rec.brand>> >> ELSE <<>>)
    \o (IF rec.full_price # <<>> /\ rec.discounted_price # <<>>
        THEN << <<"text", "full_price", rec.full_price>>,
                <<"text", "discounted_price", rec.discounted_price>> >>
        ELSE IF rec.discounted_price # <<>>
        THEN << <<"text", "discounted_price", rec.discounted_price>> >>
        ELSE IF rec.full_price # <<>>
        THEN << <<"text", "full_price", rec.full_price>> >>
        ELSE <<>>)
    \o (IF rec.discount_percent # <<>>
        THEN << <<"badge", "discount_percent",
                  <<"-">> \o rec.discount_percent \o <<"%">> >> >>
        ELSE <<>>)

IsCsvElement(e) == IsTextual(e) /\ "dataField" \in DOMAIN e

\* the image at index i of els is directly followed by the caption of rec
\* and by no further CSV element
AccompaniedAt(els, i, rec) ==
    LET cap == CaptionOf(rec)
    IN  /\ i + Len(cap) <= Len(els)
        /\ \A j \in 1..Len(cap) :
            /\ IsCsvElement(els[i + j])
            /\ <<els[i + j].type, els[i + j].dataField, els[i + j].content>> = cap[j]
        /\ i + Len(cap) < Len(els) => ~ IsCsvElement(els[i + Len(cap) + 1])

\* every image of els whose product has a record is accompanied by its caption
AllAccompanied(els) ==
    \A i \in 1..Len(els) :
        IsImageElement(els[i]) /\ RecordOf(ProductOfImage(els[i])) # <<>>
            => AccompaniedAt(els, i, RecordOf(ProductOfImage(els[i]))[1])

\* only the image of the first product is accompanied; no other image is
\* followed by a CSV element
HeroAccompanied(els) ==
    \A i \in 1..Len(els) :
        IsImageElement(els[i]) =>
            IF ProductOfImage(els[i]) = 1
            THEN RecordOf(1) # <<>> => AccompaniedAt(els, i, RecordOf(1)[1])
            ELSE i < Len(els) => ~ IsCsvElement(els[i + 1])

\* C12 (as amended): in grid and on every carousel product slide each product
\* image with a matching record is followed by that record's text block
\* (name, brand, prices, badge "-p%", the present ones, in that order); in
\* banner and story only the first (hero) product's image is; the banner's
\* additional product images carry no CSV text.
C12_CsvTextPerTemplate ==
    Composed =>
        /\ AllAccompanied(LayoutOf("grid").elements)
        /\ \A k \in 1..Len(LayoutOf("carousel").slides) :
            AllAccompanied(LayoutOf("carousel").slides[k].elements)
        /\ HeroAccompanied(LayoutOf("banner").elements)
        /\ HeroAccompanied(LayoutOf("story").elements)

\* C12 witness: two named products and a record with a name, both prices and
\* a discount: the banner shows both images, only the first with text
C12_Witness ==
    /\ Composed
    /\ Len(products) >= 2
    /\ RecordOf(1) # <<>> /\ RecordOf(2) # <<>>
    /\ Len(CaptionOf(RecordOf(2)[1])) = 4
    /\ \E i \in 1..Len(LayoutOf("banner").elements) :
        /\ IsImageElement(LayoutOf("banner").elements[i])
        /\ ProductOfImage(LayoutOf("banner").elements[i]) = 2
    /\ Cardinality({i \in 1..Len(LayoutOf("banner").elements) :
                        IsCsvElement(LayoutOf("banner").elements[i])}) = 4
    /\ Cardinality({i \in 1..Len(LayoutOf("grid").elements) :
                        IsCsvElement(LayoutOf("grid").elements[i])}) >= 8

\* C12 as stated: in each of the four templates every product image with a
\* matching record is accompanied by the record's text block
C12_CsvTextInAllTemplates ==
    Composed =>
        \A els \in ElementLists : AllAccompanied(els)

----------------------------------------------------------------------------
(* SmartLayout.createTextElementsFromCSV as a call of its own *)

\* the text regions the four templates pass: banner, story, carousel and the
\* grid cells of every grid size the product bound allows
TextRegions ==
    { Position(Pct(60), Pct(72), Pct(35), Pct(20)),
      Position(Pct(10), Pct(68), Pct(80), Pct(20)),
      Position(Pct(10), Pct(72), Pct(80), Pct(20)) }
    \cup
    { Position((i % g) * (Pct(100) \div g) + Pct(2),
               (i \div g) * (Pct(100) \div g) + Pct(2)
                   + ((Pct(96) \div g) * 6) \div 10,
               ((Pct(96) \div g) * 9) \div 10,
               ((Pct(96) \div g) * 3) \div 10) :
        g \in 1..gridSizeOf(MaxProducts), i \in 0..(MaxProducts - 1) }

InitText ==
    /\ pc = "ready"
    /\ textRow \in LayoutRecords
    /\ textRegion \in TextRegions
    /\ textElements = <<>>
    /\ IdleMatcher
    /\ IdleParser
    /\ IdleComposer
    /\ IdleAnalyzer
    /\ IdleServer

CreateTextElements ==
    /\ pc = "ready"
    /\ pc' = "rendered"
    /\ textElements' = createTextElementsFromCSV(textRow, textRegion)
    /\ UNCHANGED <<images, csvData, matchResult, csvColumns, csvRows, parsedCSV,
                   products, frameInfo, icons, layoutCsv, layouts,
                   textRow, textRegion, analyzerVars, serverVars>>

NextText == CreateTextElements

SpecText == InitText /\ [][NextText]_vars

----------------------------------------------------------------------------
(* Claims about createTextElementsFromCSV *)

Rendered == pc = "rendered"

IsPriceElement(e) ==
    e.type = "text" /\ e.dataField \in {"full_price", "discounted_price"}

HasStyle(e, key, value) == key \in DOMAIN e.style /\ e.style[key] = value

\* C15: both prices present: exactly two price elements on one line, the
\* full price struck through in the left half of the region, the discounted
\* price bold in the accent colour in the right half; exactly one price
\* present: one price element over the full region width, centered; no
\* price present: no price element.
C15_PriceBlockRule ==
    Rendered =>
        LET prices == SelectSeq(textElements, IsPriceElement)
            full   == textRow.full_price
            disc   == textRow.discounted_price
        IN  /\ (full # <<>> /\ disc # <<>>) =>
                /\ Len(prices) = 2
                /\ prices[1].dataField = "full_price"
                /\ prices[1].content = full
                /\ HasStyle(prices[1], "textDecoration", "line-through")
                /\ prices[1].position.x = textRegion.x
                /\ 2 * prices[1].position.width = textRegion.width
                /\ prices[2].dataField = "discounted_price"
                /\ prices[2].content = disc
                /\ HasStyle(prices[2], "fontWeight", "bold")
                /\ HasStyle(prices[2], "color", "#E53E3E")
                /\ 2 * prices[2].position.x = 2 * textRegion.x + textRegion.width
                /\ 2 * prices[2].position.width = textRegion.width
                /\ prices[1].position.y = prices[2].position.y
                /\ prices[1].position.height = prices[2].position.height
            /\ ((full # <<>>) # (disc # <<>>)) =>
                /\ Len(prices) = 1
                /\ prices[1].content = (IF disc # <<>> THEN disc ELSE full)
                /\ prices[1].dataField
                      = (IF disc # <<>> THEN "discounted_price" ELSE "full_price")
                /\ HasStyle(prices[1], "textAlign", "center")
                /\ prices[1].position.x = textRegion.x
                /\ prices[1].position.width = textRegion.width
            /\ (full = <<>> /\ disc = <<>>) => Len(prices) = 0

\* C15 witness: a record with both prices rendered in a cell of the 3x3 grid
C15_Witness ==
    /\ Rendered
    /\ textRow.full_price # <<>> /\ textRow.discounted_price # <<>>
    /\ 3 * textRegion.width = (Pct(96) * 9) \div 10
    /\ Len(SelectSeq(textElements, IsPriceElement)) = 2

----------------------------------------------------------------------------
(* Claims about the discount badge and the carousel captions *)

\* the index of the image a text or badge element at index i belongs to:
\* the nearest image before it in its list
ImageBefore(els, i) ==
    CHOOSE k \in 1..(i - 1) :
        /\ IsImageElement(els[k])
        /\ \A j \in (k + 1)..(i - 1) : ~ IsImageElement(els[j])

RightEdge(e) == e.position.x + e.position.width

\* C16: a discount badge is pinned to its image's top-right corner: the
\* right edges coincide and the badge lies in the upper half of the image.
C16_BadgeAtTopRight ==
    Composed =>
        \A els \in ElementLists :
            \A i \in 1..Len(els) :
                els[i].type = "badge" =>
                    LET img == els[ImageBefore(els, i)]
                    IN  /\ RightEdge(els[i]) = RightEdge(img)
                        /\ els[i].position.y >= img.position.y
                        /\ 2 * (els[i].position.y + els[i].position.height)
                              <= 2 * img.position.y + img.position.height

\* C17: every product slide (slide k for product k, after the title slide)
\* has at least one text element: the record's CSV text block when product
\* k matches a record, the fallback text "Product k" when it is unmatched
\* or no CSV data is supplied.
C17_SlideHasCaption ==
    Composed =>
        LET slides == LayoutOf("carousel").slides
        IN  /\ Len(slides) = Len(products) + 1
            /\ \A k \in 1..Len(products) :
                LET els   == slides[k + 1].elements
                    texts == SelectSeq(els, LAMBDA e : e.type = "text")
                IN  /\ Len(texts) >= 1
                    /\ IF RecordOf(k) # <<>>
                       THEN \A j \in 1..Len(texts) : IsCsvElement(texts[j])
                       ELSE /\ Len(texts) = 1
                            /\ texts[1].content
                                  = <<"P", "r", "o", "d", "u", "c", "t", " ">>
                                    \o IntToStr(k)

----------------------------------------------------------------------------
(* SmartLayout.analyzeImage *)
(* An image buffer is modelled by what sharp makes of it: `metadata` is the *)
(* option of sharp(buffer).metadata(), `gray`, `edges` and `rgb` are the    *)
(* options of the raw data the three metric pipelines obtain, <<>> when the *)
(* pipeline throws.  Non-integer numbers are integers in units of 1/Scale.  *)

\* a value returned or an error thrown
Returned(value) == [threw |-> FALSE, value |-> value]
Thrown(message) == [threw |-> TRUE, message |-> message]

\* a classification whose banner boundary is inclusive (ratio >= 1.5)
determineRecommendedUseInclusive(metadata) ==
    IF 2 * metadata.width >= 3 * metadata.height THEN "banner"
    ELSE IF 5 * metadata.width < 4 * metadata.height THEN "vertical"
    ELSE "square"

\* aspectRatio > 1.5 is 2 * width > 3 * height and aspectRatio < 0.8 is
\* 5 * width < 4 * height: the quotient of two pixel counts is never rounded
\* onto 1.5 or 0.8 unless it equals them
determineRecommendedUse(metadata) ==
    IF 2 * metadata.width > 3 * metadata.height THEN "banner"
    ELSE IF 5 * metadata.width < 4 * metadata.height THEN "vertical"
    ELSE "square"

\* a priority whose thresholds are inclusive (>= instead of >)
calculateLayoutPriorityInclusive(metadata) ==
    LET totalPixels == metadata.width * metadata.height
    IN  IF totalPixels >= 2000000 THEN 5
        ELSE IF totalPixels >= 1000000 THEN 4
        ELSE IF totalPixels >= 500000 THEN 3
        ELSE IF totalPixels >= 200000 THEN 2
        ELSE 1

calculateLayoutPriority(metadata) ==
    LET totalPixels == metadata.width * metadata.height
    IN  IF totalPixels > 2000000 THEN 5
        ELSE IF totalPixels > 1000000 THEN 4
        ELSE IF totalPixels > 500000 THEN 3
        ELSE IF totalPixels > 200000 THEN 2
        ELSE 1

\* for (let i = 0; i < data.length; i += channels) total += data[i + offset]
RECURSIVE ChannelTotal(_, _, _)
ChannelTotal(data, channels, offset) ==
    IF Len(data) < channels THEN 0
    ELSE data[1 + offset]
         + ChannelTotal(SubSeq(data, channels + 1, Len(data)), channels, offset)

\* total / (data.length / info.channels); 128 if the pipeline throws
calculateBrightness(buffer) ==
    IF buffer.gray = <<>> THEN 128 * Scale
    ELSE LET raw == buffer.gray[1]
         IN  (ChannelTotal(raw.data, raw.channels, 0) * Scale)
                 \div (Len(raw.data) \div raw.channels)

\* edges / (width * height) of the resized gray image; 0.1 if the pipeline throws
calculateComplexity(buffer) ==
    IF buffer.edges = <<>> THEN Scale \div 10
    ELSE LET raw == buffer.edges[1]
         IN  (raw.edges * Scale) \div (raw.width * raw.height)

\* Math.round(n / d) for n >= 0
RoundDiv(n, d) == (2 * n + d) \div (2 * d)

HexDigits == <<"0", "1", "2", "3", "4", "5", "6", "7", "8", "9",
               "a", "b", "c", "d", "e", "f">>

\* n.toString(16).padStart(2, '0') for 0 <= n <= 255
Hex2(n) == <<HexDigits[(n \div 16) + 1], HexDigits[(n % 16) + 1]>>

\* the average colour of the 10x10 thumbnail as #rrggbb; '#808080' if the
\* pipeline throws
getDominantColor(buffer) ==
    IF buffer.rgb = <<>> THEN <<"#", "8", "0", "8", "0", "8", "0">>
    ELSE LET raw        == buffer.rgb[1]
             pixelCount == Len(raw.data) \div raw.channels
             avg(o)     == RoundDiv(ChannelTotal(raw.data, raw.channels, o), pixelCount)
         IN  <<"#">> \o Hex2(avg(0)) \o Hex2(avg(1)) \o Hex2(avg(2))

\* an analysis that gives up as soon as one metric pipeline throws
analyzeImageStrict(buffer, fileName) ==
    IF buffer.metadata = <<>> \/ buffer.gray = <<>>
       \/ buffer.edges = <<>> \/ buffer.rgb = <<>>
    THEN Thrown("Failed to analyze image")
    ELSE LET metadata == buffer.metadata[1]
         IN  Returned([width |-> metadata.width,
                       height |-> metadata.height,
                       format |-> metadata.format,
                       aspectRatio |-> <<metadata.width, metadata.height>>,
                       fileName |-> fileName,
                       dominantColor |-> getDominantColor(buffer),
                       brightness |-> calculateBrightness(buffer),
                       complexity |-> calculateComplexity(buffer),
                       recommendedUse |-> determineRecommendedUse(metadata),
                       layoutPriority |-> calculateLayoutPriority(metadata)])

\* SmartLayout.analyzeImage; aspectRatio is kept as the fraction <<width, height>>
analyzeImage(buffer, fileName) ==
    IF buffer.metadata = <<>>
    THEN Thrown("Failed to analyze image")
    ELSE LET metadata == buffer.metadata[1]
         IN  Returned([width |-> metadata.width,
                       height |-> metadata.height,
                       format |-> metadata.format,
                       aspectRatio |-> <<metadata.width, metadata.height>>,
                       fileName |-> fileName,
                       dominantColor |-> getDominantColor(buffer),
                       brightness |-> calculateBrightness(buffer),
                       complexity |-> calculateComplexity(buffer),
                       recommendedUse |-> determineRecommendedUse(metadata),
                       layoutPriority |-> calculateLayoutPriority(metadata)])

(* Inputs of the analyzer *)

Dimensions ==
    { <<1000, 200>>, <<2000, 1000>>, <<1500, 1000>>, <<800, 1000>>,
      <<600, 1000>>, <<2000, 1001>>, <<3000, 2000>>, <<400, 500>>,
      <<1000, 1000>>, <<1000, 500>>, <<1000, 501>> }

MetadataOptions ==
    {<<>>} \cup {<<[width |-> d[1], height |-> d[2], format |-> "jpeg"]>> :
                    d \in Dimensions}

GrayOptions ==
    {<<>>, <<[data |-> <<0>>, channels |-> 1]>>,
     <<[data |-> <<255, 255>>, channels |-> 1]>>,
     <<[data |-> <<100, 255, 101, 255>>, channels |-> 2]>>}

\* a 3x3 thumbnail has one interior pixel, so at most one edge
EdgeOptions ==
    {<<>>} \cup {<<[edges |-> e, width |-> 3, height |-> 3]>> : e \in 0..1}

RgbOptions ==
    {<<>>, <<[data |-> <<255, 128, 8>>, channels |-> 3]>>,
     <<[data |-> <<0, 0, 0, 1, 1, 1>>, channels |-> 3]>>}

ImageBuffers ==
    [metadata : MetadataOptions, gray : GrayOptions,
     edges : EdgeOptions, rgb : RgbOptions]

AnalyzedFileName == <<"A", ".", "j", "p", "g">>

InitAnalyze ==
    /\ pc = "ready"
    /\ imageBuffer \in ImageBuffers
    /\ analysis = <<>>
    /\ IdleMatcher
    /\ IdleParser
    /\ IdleComposer
    /\ IdleText
    /\ IdleServer

AnalyzeImage ==
    /\ pc = "ready"
    /\ pc' = "analyzed"
    /\ analysis' = <<analyzeImage(imageBuffer, AnalyzedFileName)>>
    /\ UNCHANGED <<images, csvData, matchResult, csvColumns, csvRows, parsedCSV,
                   products, frameInfo, icons, layoutCsv, layouts,
                   textVars, imageBuffer, serverVars>>

NextAnalyze == AnalyzeImage

SpecAnalyze == InitAnalyze /\ [][NextAnalyze]_vars

----------------------------------------------------------------------------
(* Claims about analyzeImage *)

Analyzed == pc = "analyzed"

RECURSIVE SumSeq(_)
SumSeq(s) == IF s = <<>> THEN 0 ELSE s[1] + SumSeq(Tail(s))

\* the first channel of interleaved raw data
FirstChannel(raw) ==
    [k \in 1..(Len(raw.data) \div raw.channels) |->
        raw.data[(k - 1) * raw.channels + 1]]

\* C18: analyzeImage throws exactly when the metadata cannot be read; when
\* a metric pipeline throws, that metric has its default (brightness 128,
\* complexity 0.1, dominantColor '#808080') and the others their computed
\* values; brightness is in [0,255] and complexity in [0,1].
C18_MetricDefaults ==
    Analyzed =>
        /\ analysis[1].threw <=> imageBuffer.metadata = <<>>
        /\ ~ analysis[1].threw =>
            LET a == analysis[1].value
            IN  /\ a.width = imageBuffer.metadata[1].width
                /\ a.height = imageBuffer.metadata[1].height
                /\ IF imageBuffer.gray = <<>>
                   THEN a.brightness = 128 * Scale
                   ELSE a.brightness * Len(FirstChannel(imageBuffer.gray[1]))
                           = SumSeq(FirstChannel(imageBuffer.gray[1])) * Scale
                /\ IF imageBuffer.edges = <<>>
                   THEN 10 * a.complexity = Scale
                   ELSE a.complexity * 9 = imageBuffer.edges[1].edges * Scale
                /\ IF imageBuffer.rgb = <<>>
                   THEN a.dominantColor = <<"#", "8", "0", "8", "0", "8", "0">>
                   ELSE a.dominantColor \in
                           {<<"#", "f", "f", "8", "0", "0", "8">>,
                            <<"#", "0", "1", "0", "1", "0", "1">>}
                /\ a.brightness >= 0 /\ a.brightness <= 255 * Scale
                /\ a.complexity >= 0 /\ a.complexity <= Scale

\* C18 witness: the brightness pipeline throws, the other two succeed, and
\* the analysis is returned with brightness 128 and a computed colour
C18_Witness ==
    /\ Analyzed
    /\ imageBuffer.metadata # <<>>
    /\ imageBuffer.gray = <<>>
    /\ imageBuffer.edges # <<>> /\ imageBuffer.rgb # <<>>
    /\ ~ analysis[1].threw
    /\ analysis[1].value.brightness = 128 * Scale
    /\ analysis[1].value.dominantColor = <<"#", "f", "f", "8", "0", "0", "8">>

----------------------------------------------------------------------------
(* FileHandler.upload and FileHandler.getSessionFiles *)
(* The session directory is a record of its sub-directories; a directory is *)
(* the sequence of its files [fileName, buffer] in listing order.  A JSON   *)
(* value that the code treats as an array or as an object carries its kind. *)

MaxUploadImages == 2

JsArray(items) == [isArray |-> TRUE, items |-> items]
JsObject(object) == [isArray |-> FALSE, object |-> object]

\* value.length: defined for an array, undefined (<<>>) for a plain object
JsLength(value) == IF value.isArray THEN <<Len(value.items)>> ELSE <<>>

EmptySession ==
    [products |-> <<>>, icons |-> <<>>, frame |-> <<>>,
     csvFile |-> <<>>, sessionJson |-> <<>>]

\* creates the session's directories when they do not exist
createSessionDirectories(d) == IF d = <<>> THEN <<EmptySession>> ELSE d

\* sharp(buffer).resize(2048, 2048, {fit: 'inside', withoutEnlargement: true})
\* .jpeg().toBuffer(): the re-encoded image, <<>> when sharp rejects
Reencode(buffer) ==
    IF buffer.metadata = <<>> \/ buffer.rgb = <<>> THEN <<>>
    ELSE <<[buffer EXCEPT
              !.metadata = <<[buffer.metadata[1] EXCEPT !.format = "jpeg"]>>]>>

\* processAndSaveFile: the file written and the object returned, or an error;
\* n stands for the uuid
processAndSaveFile(file, category, n) ==
    LET info      == UploadedImage(file.originalname, n)
        processed == IF file.mimetype # "image/svg+xml"
                     THEN Reencode(file.buffer)
                     ELSE <<file.buffer>>
    IN  IF processed = <<>>
        THEN Thrown("Failed to process file")
        ELSE Returned(
               [saved |-> [fileName |-> info.fileName, buffer |-> processed[1]],
                info  |-> info @@ [path |-> Url(category, info.fileName),
                                   url  |-> Url(category, info.fileName),
                                   category |-> category]])

\* for (const file of files) { result = await processAndSaveFile(...); push }:
\* the state after the first k files; the loop ends at the first error
RECURSIVE SaveAll(_, _, _, _)
SaveAll(files, category, first, k) ==
    IF k = 0 THEN [saved |-> <<>>, infos |-> <<>>, failed |-> FALSE]
    ELSE LET before == SaveAll(files, category, first, k - 1)
             out    == processAndSaveFile(files[k], category, first + k - 1)
         IN  IF before.failed THEN before
             ELSE IF out.threw THEN [before EXCEPT !.failed = TRUE]
             ELSE [saved  |-> Append(before.saved, out.value.saved),
                   infos  |-> Append(before.infos, out.value.info),
                   failed |-> FALSE]

FileExists(dir, fileName) == \E i \in 1..Len(dir) : dir[i].fileName = fileName

\* fs.renameSync(oldPath, newPath) inside one directory: the file takes the
\* new name, a file that had that name is replaced
RenameFile(dir, oldName, newName) ==
    LET kept == SelectSeq(dir, LAMBDA f : f.fileName # newName)
    IN  [i \in 1..Len(kept) |->
            IF kept[i].fileName = oldName
            THEN [kept[i] EXCEPT !.fileName = newName] ELSE kept[i]]

\* FileHandler.renameImagesToSKU after the first k matched items: the
\* products directory and the renamedFiles list
RECURSIVE renameImagesToSKU(_, _, _)
renameImagesToSKU(dir, matchedItems, k) ==
    IF k = 0 THEN [dir |-> dir, renamedFiles |-> <<>>]
    ELSE LET before      == renameImagesToSKU(dir, matchedItems, k - 1)
             image       == matchedItems[k].image
             product     == matchedItems[k].product
             newFileName == product.sku \o extname(image.fileName)
             newPath     == Url("products", newFileName)
         IN  IF /\ image.path # <<>>
                /\ FileExists(before.dir, image.fileName)
                /\ image.path # newPath
             THEN [dir |-> RenameFile(before.dir, image.fileName, newFileName),
                   renamedFiles |->
                      Append(before.renamedFiles,
                             [originalName |-> image.originalName,
                              oldFileName  |-> image.fileName,
                              newFileName  |-> newFileName,
                              sku          |-> product.sku,
                              url          |-> newPath])]
             ELSE before

\* renamedFiles.forEach(renamed => { products[findIndex(...)] = ... }) after
\* the first k renamed files
RECURSIVE UpdateReferences(_, _, _)
UpdateReferences(infos, renamedFiles, k) ==
    IF k = 0 THEN infos
    ELSE LET before  == UpdateReferences(infos, renamedFiles, k - 1)
             renamed == renamedFiles[k]
             hits    == {i \in 1..Len(before) :
                            before[i].fileName = renamed.oldFileName}
         IN  IF hits = {} THEN before
             ELSE [before EXCEPT ![Min(hits)] =
                      [fileName |-> renamed.newFileName,
                       url      |-> renamed.url,
                       sku      |-> renamed.sku] @@ @]

\* const matchingResults = ...; renamedFiles = await renameImagesToSKU(...);
\* renamedFiles.forEach(...): the matched images are the product objects
\* themselves, so they show the new names as well
RenamedUpload(infos, parsed, matching, renaming) ==
    [dir      |-> renaming.dir,
     products |-> UpdateReferences(infos, renaming.renamedFiles,
                                   Len(renaming.renamedFiles)),
     csvData  |-> <<parsed>>,
     matchingResults |->
        <<[matching EXCEPT !.matched =
             [i \in 1..Len(matching.matched) |->
                 [matching.matched[i] EXCEPT !.image =
                     UpdateReferences(<<@>>, renaming.renamedFiles,
                                      Len(renaming.renamedFiles))[1]]]]>>]

MatchedUpload(dir, infos, parsed, matching) ==
    RenamedUpload(infos, parsed, matching,
        IF Len(matching.matched) > 0
        THEN renameImagesToSKU(dir, matching.matched, Len(matching.matched))
        ELSE [dir |-> dir, renamedFiles |-> <<>>])

ParsedUpload(dir, infos, parsed) ==
    IF Len(infos) > 0 /\ parsed.success
    THEN MatchedUpload(dir, infos, parsed,
                       matchImagesToProducts(infos, parsed.data))
    ELSE [dir |-> dir, products |-> infos,
          csvData |-> <<parsed>>, matchingResults |-> <<>>]

\* the CSV part of upload: parse, match when there are product images, rename
UploadCsv(dir, infos, csvFile) ==
    ParsedUpload(dir, infos, parseProductCSV(csvFile.columns, csvFile.rows))

\* the end of upload: session.json is written and the result returned
SavedUpload(dirs, files, icns, frm, csv) ==
    LET uploadedFiles ==
            [products |-> csv.products,
             icons    |-> icns.infos,
             frame    |-> frm.infos,
             csv      |-> IF files.csvFile # <<>>
                          THEN <<[fileName |-> <<"products.csv">>]>> ELSE <<>>,
             csvData  |-> csv.csvData,
             matchingResults |-> csv.matchingResults]
    IN  [disk |->
            << [dirs EXCEPT
                  !.products = csv.dir,
                  !.csvFile = IF files.csvFile # <<>> THEN files.csvFile ELSE @,
                  !.sessionJson = <<[files |-> uploadedFiles]>>] >>,
         result |-> Returned([success |-> TRUE, files |-> uploadedFiles])]

\* upload after the image files have been processed; an error of
\* processAndSaveFile ends it with the files written so far
ProcessedUpload(dirs, files, prods, icns, frm) ==
    IF prods.failed
    THEN [disk |-> <<[dirs EXCEPT !.products = @ \o prods.saved]>>,
          result |-> Thrown("Upload failed")]
    ELSE IF icns.failed
    THEN [disk |-> <<[dirs EXCEPT !.products = @ \o prods.saved,
                                  !.icons = @ \o icns.saved]>>,
          result |-> Thrown("Upload failed")]
    ELSE IF frm.failed
    THEN [disk |-> <<[dirs EXCEPT !.products = @ \o prods.saved,
                                  !.icons = @ \o icns.saved,
                                  !.frame = @ \o frm.saved]>>,
          result |-> Thrown("Upload failed")]
    ELSE SavedUpload([dirs EXCEPT !.icons = @ \o icns.saved,
                                  !.frame = @ \o frm.saved],
                     files, icns, frm,
                     IF files.csvFile # <<>>
                     THEN UploadCsv(dirs.products \o prods.saved, prods.infos,
                                    files.csvFile[1])
                     ELSE [dir |-> dirs.products \o prods.saved,
                           products |-> prods.infos,
                           csvData |-> <<>>, matchingResults |-> <<>>])

\* FileHandler.upload when `drawn` uuids have been given to earlier files of
\* the session: the session directory afterwards and the outcome
uploadAfter(d, files, drawn) ==
    ProcessedUpload(
        createSessionDirectories(d)[1], files,
        SaveAll(files.productImages, "products", drawn + 1,
                Len(files.productImages)),
        SaveAll(files.icons, "icons", drawn + Len(files.productImages) + 1,
                Len(files.icons)),
        SaveAll(SubSeq(files.frame, 1, MinOf(Len(files.frame), 1)), "frame",
                drawn + Len(files.productImages) + Len(files.icons) + 1,
                MinOf(Len(files.frame), 1)))

\* FileHandler.upload, the first of a session
upload(d, files) == uploadAfter(d, files, 0)

\* fs.readdirSync(directory) as getSessionFiles reports it; originalName and
\* path are not part of these objects (undefined)
Listing(dir, category) ==
    [i \in 1..Len(dir) |->
        [fileName     |-> dir[i].fileName,
         url          |-> Url(category, dir[i].fileName),
         originalName |-> <<>>,
         path         |-> <<>>]]

\* FileHandler.getSessionFiles: the session directory afterwards (the
\* directories are created on the way) and the outcome
getSessionFiles(d) ==
    LET dirs == createSessionDirectories(d)[1]
    IN  [disk   |-> <<dirs>>,
         result |->
            IF dirs.sessionJson = <<>>
            THEN Thrown("Failed to get session files: Session not found")
            ELSE LET sessionInfo == dirs.sessionJson[1]
                     frames      == Listing(dirs.frame, "frame")
                 IN  Returned(
                       [products |-> Listing(dirs.products, "products"),
                        icons    |-> Listing(dirs.icons, "icons"),
                        frame    |-> SubSeq(frames, 1, MinOf(Len(frames), 1)),
                        csv      |-> sessionInfo.files.csv,
                        csvData  |-> IF sessionInfo.files.csvData # <<>>
                                     THEN JsObject(sessionInfo.files.csvData[1])
                                     ELSE JsArray(<<>>)])]

----------------------------------------------------------------------------
(* The endpoints of server.js *)

Respond(status, body) == [status |-> status, body |-> body]

BufferOf(dir, fileName) ==
    dir[CHOOSE i \in 1..Len(dir) : dir[i].fileName = fileName].buffer

\* the analysis loop of GET /api/layouts over the first k products: an
\* image whose analysis throws is logged and skipped
RECURSIVE AnalyzedProducts(_, _, _)
AnalyzedProducts(dir, listed, k) ==
    IF k = 0 THEN <<>>
    ELSE LET before == AnalyzedProducts(dir, listed, k - 1)
             out    == analyzeImage(BufferOf(dir, listed[k].fileName),
                                    listed[k].fileName)
         IN  IF out.threw THEN before
             ELSE Append(before, ("url" :> listed[k].url) @@ out.value)

\* the analysis loop of POST /api/process over the first k products
RECURSIVE ProcessedProducts(_, _, _)
ProcessedProducts(dir, listed, k) ==
    IF k = 0 THEN <<>>
    ELSE LET before == ProcessedProducts(dir, listed, k - 1)
             out    == analyzeImage(BufferOf(dir, listed[k].fileName),
                                    listed[k].fileName)
         IN  IF out.threw THEN before
             ELSE Append(before,
                    [id   |-> <<"p", "r", "o", "d", "u", "c", "t", "_">>
                              \o IntToStr(Len(before) + 1),
                     name |-> listed[k].fileName,
                     url  |-> listed[k].url,
                     analysis     |-> out.value,
                     layoutConfig |-> <<>>])

FrameAndIcon(file) == [url |-> file.url, fileName |-> file.fileName]

\* GET /api/layouts/:sessionId
LayoutsResponse(d) ==
    LET got == getSessionFiles(d)
    IN  IF got.result.threw
        THEN Respond(500, [error |-> "Failed to generate layouts"])
        ELSE LET sessionFiles == got.result.value
                 prods == AnalyzedProducts(got.disk[1].products,
                              sessionFiles.products, Len(sessionFiles.products))
                 frame == [i \in 1..Len(sessionFiles.frame) |->
                              FrameAndIcon(sessionFiles.frame[i])]
                 icns  == [i \in 1..Len(sessionFiles.icons) |->
                              FrameAndIcon(sessionFiles.icons[i])]
             IN  Respond(200,
                    [success      |-> TRUE,
                     layouts      |-> generateLayoutRecommendations(
                                          prods, frame, icns, <<>>),
                     productCount |-> Len(prods),
                     hasFrame     |-> frame # <<>>,
                     iconCount    |-> Len(icns)])

\* POST /api/process
ProcessResponse(d) ==
    LET got == getSessionFiles(d)
    IN  IF got.result.threw
        THEN Respond(500, [error |-> "Processing failed"])
        ELSE LET sessionFiles == got.result.value
                 processed == ProcessedProducts(got.disk[1].products,
                                  sessionFiles.products, Len(sessionFiles.products))
                 length    == JsLength(sessionFiles.csvData)
             IN  Respond(200,
                    [success  |-> TRUE,
                     products |-> processed,
                     csvData  |-> sessionFiles.csvData,
                     summary  |->
                        [totalProducts |-> Len(processed),
                         hasCsvData    |-> length # <<>> /\ length[1] > 0,
                         hasFrame      |-> sessionFiles.frame # <<>>,
                         iconCount     |-> Len(sessionFiles.icons)]])

\* POST /api/match-products: the session directory afterwards and the response
MatchProductsResponse(d) ==
    LET got == getSessionFiles(d)
    IN  IF got.result.threw
        THEN [disk |-> got.disk,
              response |-> Respond(500, [error |-> "Failed to match products"])]
        ELSE LET sessionFiles == got.result.value
                 csv == sessionFiles.csvData
             IN  IF JsLength(csv) = <<0>>
                 THEN [disk |-> got.disk,
                       response |-> Respond(400, [error |-> "No CSV data found"])]
                 ELSE IF Len(sessionFiles.products) = 0
                 THEN [disk |-> got.disk,
                       response |-> Respond(400, [error |-> "No product images found"])]
                 ELSE IF ~ csv.isArray
                 \* csvData.forEach is not a function
                 THEN [disk |-> got.disk,
                       response |-> Respond(500, [error |-> "Failed to match products"])]
                 ELSE LET matching == matchImagesToProducts(
                                          sessionFiles.products, csv.items)
                          renaming == renameImagesToSKU(got.disk[1].products,
                                          matching.matched, Len(matching.matched))
                      IN  [disk |-> <<[got.disk[1] EXCEPT
                                          !.products = renaming.dir]>>,
                           response |->
                              Respond(200,
                                 [success  |-> TRUE,
                                  matching |-> matching,
                                  renamedFiles |-> renaming.renamedFiles])]

(* Requests *)

ReadableImage ==
    [metadata |-> <<[width |-> 1000, height |-> 1000, format |-> "png"]>>,
     gray     |-> <<[data |-> <<255, 255>>, channels |-> 1]>>,
     edges    |-> <<[edges |-> 0, width |-> 3, height |-> 3]>>,
     rgb      |-> <<[data |-> <<255, 128, 8>>, channels |-> 3]>>]

UnreadableImage ==
    [metadata |-> <<>>, gray |-> <<>>, edges |-> <<>>, rgb |-> <<>>]

\* product image files of a request: a readable one named after a SKU, an
\* SVG that sharp cannot read (stored as it is), a PNG that sharp cannot read
UploadImages ==
    { [originalname |-> <<"A">> \o JpgExt, mimetype |-> "image/jpeg",
       buffer |-> ReadableImage],
      [originalname |-> <<"x", ".", "s", "v", "g">>, mimetype |-> "image/svg+xml",
       buffer |-> UnreadableImage],
      [originalname |-> <<"c", ".", "p", "n", "g">>, mimetype |-> "image/png",
       buffer |-> UnreadableImage] }

UploadIcon ==
    [originalname |-> <<"i", ".", "p", "n", "g">>, mimetype |-> "image/png",
     buffer |-> ReadableImage]

CsvHeader ==
    <<"sku", "product_name", "brand", "full_price", "discounted_price",
      "discount_percent">>

CsvRow(sku, name, brand, full, discounted, percent) ==
    ("sku" :> sku) @@ ("product_name" :> name) @@ ("brand" :> brand)
    @@ ("full_price" :> full) @@ ("discounted_price" :> discounted)
    @@ ("discount_percent" :> percent)

\* CSV files of a request as Papa.parse reads them: header only, or one row
CsvFiles ==
    { [columns |-> CsvHeader, rows |-> <<>>],
      [columns |-> CsvHeader,
       rows |-> <<CsvRow(<<"a">>, <<"n">>, <<"b">>, <<"9">>, <<"7">>, <<"2">>)>>],
      [columns |-> CsvHeader,
       rows |-> <<CsvRow(<<"z">>, <<"n">>, <<>>, <<"9">>, <<>>, <<>>)>>] }

UploadRequests ==
    [productImages : SeqsUpTo(UploadImages, MaxUploadImages),
     icons         : {<<>>, <<UploadIcon>>},
     frame         : {<<>>, <<UploadIcon>>},
     csvFile       : {<<>>} \cup {<<c>> : c \in CsvFiles}]

InitServer ==
    /\ pc = "serving"
    /\ request = <<>>
    /\ disk = <<>>
    /\ response = <<>>
    /\ IdleMatcher
    /\ IdleParser
    /\ IdleComposer
    /\ IdleText
    /\ IdleAnalyzer

\* POST /api/upload, once per session
PostUpload ==
    /\ pc = "serving"
    /\ request = <<>>
    /\ \E files \in UploadRequests :
        LET hasFiles == \/ files.productImages # <<>> \/ files.icons # <<>>
                        \/ files.frame # <<>> \/ files.csvFile # <<>>
            out      == upload(disk, files)
        IN  /\ request' = <<files>>
            /\ IF ~ hasFiles
               THEN /\ disk' = disk
                    /\ response' =
                        <<[endpoint |-> "upload"]
                          @@ Respond(400, [error |-> "At least one file must be uploaded"])>>
               ELSE /\ disk' = out.disk
                    /\ response' =
                        <<[endpoint |-> "upload"]
                          @@ (IF out.result.threw
                              THEN Respond(500, [error |-> "Upload failed"])
                              ELSE Respond(200, out.result.value))>>
    /\ UNCHANGED <<pc, images, csvData, matchResult, csvColumns, csvRows,
                   parsedCSV, products, frameInfo, icons, layoutCsv, layouts,
                   textVars, analyzerVars>>

GetLayouts ==
    /\ pc = "serving"
    /\ disk' = getSessionFiles(disk).disk
    /\ response' = <<[endpoint |-> "layouts"] @@ LayoutsResponse(disk)>>
    /\ UNCHANGED <<pc, images, csvData, matchResult, csvColumns, csvRows,
                   parsedCSV, products, frameInfo, icons, layoutCsv, layouts,
                   textVars, analyzerVars, request>>

PostProcess ==
    /\ pc = "serving"
    /\ disk' = getSessionFiles(disk).disk
    /\ response' = <<[endpoint |-> "process"] @@ ProcessResponse(disk)>>
    /\ UNCHANGED <<pc, images, csvData, matchResult, csvColumns, csvRows,
                   parsedCSV, products, frameInfo, icons, layoutCsv, layouts,
                   textVars, analyzerVars, request>>

PostMatchProducts ==
    /\ pc = "serving"
    /\ disk' = MatchProductsResponse(disk).disk
    /\ response' = <<[endpoint |-> "match-products"]
                     @@ MatchProductsResponse(disk).response>>
    /\ UNCHANGED <<pc, images, csvData, matchResult, csvColumns, csvRows,
                   parsedCSV, products, frameInfo, icons, layoutCsv, layouts,
                   textVars, analyzerVars, request>>

NextServer == PostUpload \/ GetLayouts \/ PostProcess \/ PostMatchProducts

SpecServer == InitServer /\ [][NextServer]_vars

----------------------------------------------------------------------------
(* Claims about the endpoints *)

Answered(endpoint) == response # <<>> /\ response[1].endpoint = endpoint

\* the session exists with its session.json
SessionSaved == disk # <<>> /\ disk[1].sessionJson # <<>>

\* the records of the session's parsed CSV, <<>> without a CSV
SessionRecords ==
    IF SessionSaved /\ disk[1].sessionJson[1].files.csvData # <<>>
    THEN disk[1].sessionJson[1].files.csvData[1].data
    ELSE <<>>

\* the files of the session's products directory whose name contains the
\* SKU of record r
FilesNamedAfter(rec) ==
    {i \in 1..Len(disk[1].products) :
        /\ rec.sku # <<>>
        /\ includes(toLowerCase(disk[1].products[i].fileName),
                    toLowerCase(rec.sku))}

\* the element lists of the layouts of a response body
ListsOf(body) ==
    UNION {IF "slides" \in DOMAIN body.layouts[l]
           THEN {body.layouts[l].slides[k].elements :
                    k \in 1..Len(body.layouts[l].slides)}
           ELSE {body.layouts[l].elements} : l \in 1..Len(body.layouts)}

\* C13: for a session with parsed CSV data and a product image whose file
\* name contains a record's SKU, the layouts of GET /api/layouts contain
\* that record's text elements (name, brand, prices, badge) next to the
\* image, in at least one layout.
C13_LayoutsCarryCsvText ==
    Answered("layouts") /\ SessionSaved =>
        \A r \in 1..Len(SessionRecords) :
            \A i \in FilesNamedAfter(SessionRecords[r]) :
                disk[1].products[i].buffer.metadata # <<>> =>
                    /\ response[1].status = 200
                    /\ \E els \in ListsOf(response[1].body) :
                        \E k \in 1..Len(els) :
                            /\ IsImageElement(els[k])
                            /\ els[k].source
                                  = Url("products", disk[1].products[i].fileName)
                            /\ CaptionOf(SessionRecords[r]) # <<>>
                            /\ AccompaniedAt(els, k, SessionRecords[r])

\* C14: for a session with a CSV of at least one data row and at least one
\* product image, POST /api/match-products answers with success and a
\* matching result that accounts for every product image of the session.
C14_MatchProductsSucceeds ==
    (/\ Answered("match-products")
     /\ SessionSaved
     /\ Len(SessionRecords) >= 1
     /\ Len(disk[1].products) >= 1) =>
        /\ response[1].status = 200
        /\ response[1].body.success
        /\ Len(response[1].body.matching.matched)
              + Len(response[1].body.matching.unmatchedImages)
              = Len(disk[1].products)

\* the session directory without the product files that cannot be analysed
WithoutUnreadable(d) ==
    <<[d[1] EXCEPT !.products =
          SelectSeq(@, LAMBDA f : f.buffer.metadata # <<>>)]>>

HasUnreadable ==
    \E i \in 1..Len(disk[1].products) : disk[1].products[i].buffer.metadata = <<>>

\* the successfully analysed products of a response, as <<fileName, url>>
ReportedProducts ==
    IF response[1].endpoint = "process"
    THEN [k \in 1..Len(response[1].body.products) |->
            <<response[1].body.products[k].name, response[1].body.products[k].url>>]
    ELSE LET imgs == SelectSeq(
                        (CHOOSE l \in {response[1].body.layouts[j] :
                                          j \in 1..Len(response[1].body.layouts)} :
                            l.type = "grid").elements, IsImageElement)
         IN  [k \in 1..Len(imgs) |-> imgs[k].source]

ReadableProducts ==
    LET ok == SelectSeq(disk[1].products, LAMBDA f : f.buffer.metadata # <<>>)
    IN  [k \in 1..Len(ok) |->
            IF response[1].endpoint = "process"
            THEN <<ok[k].fileName, Url("products", ok[k].fileName)>>
            ELSE Url("products", ok[k].fileName)]

\* C19: when the analysis of one product image fails in GET /api/layouts or
\* POST /api/process, the request succeeds, every other image is analysed
\* and keeps its url/fileName and relative order, and the failure is
\* reported to the caller: the response differs from the response of the
\* same session without the bad image.
C19_FailuresIsolatedAndReported ==
    (/\ Answered("layouts") \/ Answered("process")
     /\ SessionSaved
     /\ HasUnreadable) =>
        /\ response[1].status = 200
        /\ ReportedProducts = ReadableProducts
        /\ response[1].body #
              (IF response[1].endpoint = "process"
               THEN ProcessResponse(WithoutUnreadable(disk)).body
               ELSE LayoutsResponse(WithoutUnreadable(disk)).body)

----------------------------------------------------------------------------
(* The matcher and the composer called with empty inputs *)

\* either the image list or the record table of the matcher is empty, and
\* the composer has no product image
InitEmptyInputs ==
    /\ pc = "ready"
    /\ images \in ImageLists
    /\ csvData \in RecordTables
    /\ images = <<>> \/ csvData = <<>>
    /\ matchResult = <<>>
    /\ products = <<>>
    /\ frameInfo \in Frames
    /\ icons \in IconLists
    /\ layoutCsv \in {<<>>, <<(<<>>)>>}
    /\ layouts = <<>>
    /\ IdleParser
    /\ IdleText
    /\ IdleAnalyzer
    /\ IdleServer

NextEmptyInputs == MatchImages \/ GenerateLayouts

SpecEmptyInputs == InitEmptyInputs /\ [][NextEmptyInputs]_vars

IsMatchResult(r) ==
    DOMAIN r = {"matched", "unmatchedProducts", "unmatchedImages", "matchRate"}

IsLayoutList(ls) ==
    /\ Len(ls) = 4
    /\ {ls[i].type : i \in 1..Len(ls)} = LayoutTypes

\* C20 (as amended): with zero images or zero records the matcher returns a
\* normal result (nothing matched, every image unmatched, every record with
\* a SKU unmatched, matchRate the number 0 without images and "0.0" without
\* records); with zero product images the composer returns the four
\* layouts, without any product image and with the title slide only.
C20_EmptyInputsReturnNormally ==
    /\ pc = "matched" =>
        /\ IsMatchResult(matchResult[1])
        /\ matchResult[1].matched = <<>>
        /\ matchResult[1].unmatchedImages = images
        /\ Len(matchResult[1].unmatchedProducts)
              = Cardinality({r \in 1..Len(csvData) : csvData[r].sku # <<>>})
        /\ matchResult[1].matchRate.type
              = (IF images = <<>> THEN "number" ELSE "string")
        /\ IF images = <<>>
           THEN matchResult[1].matchRate.value = 0
           ELSE matchResult[1].matchRate.value = <<"0", ".", "0">>
    /\ pc = "composed" =>
        /\ IsLayoutList(layouts)
        /\ \A els \in ElementLists :
            \A i \in 1..Len(els) : ~ IsImageElement(els[i])
        /\ Len(LayoutOf("carousel").slides) = 1
        /\ LayoutOf("grid").elements
              = (IF frameInfo = <<>> THEN <<>>
                 ELSE <<[type |-> "frame", source |-> frameInfo[1].url,
                         position |-> [x |-> 0, y |-> 0, width |-> Pct(100),
                                       height |-> Pct(100)],
                         zIndex |-> 0]>>)

\* C20 witness: the matcher has returned for three records and no image
C20_Witness ==
    /\ pc = "matched"
    /\ images = <<>>
    /\ Len(csvData) = 3
    /\ Len(matchResult[1].unmatchedProducts) = 3
    /\ matchResult[1].matchRate.type = "number"
    /\ matchResult[1].matchRate.value = 0

\* C20 as stated: with zero images or zero records the matcher, and with
\* zero product images the composer, surface an error instead of returning
\* a normal result
C20_NoDataErrorSurfaced ==
    /\ (pc = "matched" /\ (Len(images) = 0 \/ Len(csvData) = 0))
          => ~ IsMatchResult(matchResult[1])
    /\ (pc = "composed" /\ Len(products) = 0) => ~ IsLayoutList(layouts)

----------------------------------------------------------------------------
(* Claims about calculateLayoutPriority and determineRecommendedUse *)

AnalysisReturned == Analyzed /\ ~ analysis[1].threw
PixelsOf(d) == d[1] * d[2]
PriorityThresholds == {200000, 500000, 1000000, 2000000}
MetadataOf(d) == [width |-> d[1], height |-> d[2], format |-> "jpeg"]

\* C22: layoutPriority is in 1..5, is one more than the number of the
\* thresholds 200,000 / 500,000 / 1,000,000 / 2,000,000 that width * height
\* strictly exceeds (so exactly 2,000,000 pixels gives 4 and exactly 200,000
\* gives 1), and no image with fewer or as many pixels has a higher priority.
C22_LayoutPriorityThresholds ==
    AnalysisReturned =>
        LET a == analysis[1].value
            totalPixels == a.width * a.height
        IN  /\ a.layoutPriority \in 1..5
            /\ a.layoutPriority
                 = 1 + Cardinality({t \in PriorityThresholds : totalPixels > t})
            /\ totalPixels = 2000000 => a.layoutPriority = 4
            /\ totalPixels = 200000 => a.layoutPriority = 1
            /\ \A d \in Dimensions :
                  PixelsOf(d) <= totalPixels =>
                      calculateLayoutPriority(MetadataOf(d)) <= a.layoutPriority

\* C22 witness: an image of exactly 2,000,000 pixels is analysed with
\* priority 4 while a smaller image of the inputs has a lower priority
C22_Witness ==
    /\ AnalysisReturned
    /\ analysis[1].value.width * analysis[1].value.height = 2000000
    /\ analysis[1].value.layoutPriority = 4
    /\ \E d \in Dimensions :
          /\ PixelsOf(d) < 2000000
          /\ calculateLayoutPriority(MetadataOf(d)) < 4

\* C23: recommendedUse is 'banner' when width / height > 1.5, 'vertical'
\* when width / height < 0.8 and 'square' otherwise, so the ratios exactly
\* 1.5 and exactly 0.8 are 'square'; it is one of the three values and two
\* images of the same ratio are classified alike.
C23_RecommendedUseByRatio ==
    AnalysisReturned =>
        LET a == analysis[1].value
        IN  /\ a.recommendedUse \in {"banner", "vertical", "square"}
            /\ a.recommendedUse = "banner" <=> 2 * a.width > 3 * a.height
            /\ a.recommendedUse = "vertical" <=> 5 * a.width < 4 * a.height
            /\ a.recommendedUse = "square" <=>
                  /\ 2 * a.width <= 3 * a.height
                  /\ 5 * a.width >= 4 * a.height
            /\ \A d \in Dimensions :
                  d[1] * a.height = a.width * d[2] =>
                      determineRecommendedUse(MetadataOf(d)) = a.recommendedUse

\* C23 witness: an image of ratio exactly 3:2 is classified 'square', and so
\* is another input of the same ratio and a different size
C23_Witness ==
    /\ AnalysisReturned
    /\ 2 * analysis[1].value.width = 3 * analysis[1].value.height
    /\ analysis[1].value.recommendedUse = "square"
    /\ \E d \in Dimensions :
          /\ d[1] # analysis[1].value.width
          /\ 2 * d[1] = 3 * d[2]
          /\ determineRecommendedUse(MetadataOf(d)) = "square"

----------------------------------------------------------------------------
(* The image loop of matchImagesToProducts *)

MatchedImages == [k \in MatchedIdx |-> Matched[k].image]
UnmatchedImages == matchResult[1].unmatchedImages

\* the positions of the input list at which an image stands
PositionsOf(image) == {j \in 1..Len(images) : images[j] = image}

\* list is a sub-list of the input images in input order
InInputOrder(list) ==
    /\ \A k \in 1..Len(list) : PositionsOf(list[k]) # {}
    /\ \A k1, k2 \in 1..Len(list) :
          k1 < k2 => Min(PositionsOf(list[k1])) < Min(PositionsOf(list[k2]))

\* C30: matched and unmatchedImages partition the input images: every input
\* image stands exactly once in exactly one of the two lists, each list keeps
\* the input order, the two lengths add up to images.length, and every
\* matchedSku is the SKU of a record of the input table.
C30_ImagesPartitioned ==
    MatchReturned =>
        /\ \A j \in 1..Len(images) :
              Cardinality({k \in MatchedIdx : MatchedImages[k] = images[j]})
                + Cardinality({k \in 1..Len(UnmatchedImages) :
                                  UnmatchedImages[k] = images[j]}) = 1
        /\ InInputOrder(MatchedImages)
        /\ InInputOrder(UnmatchedImages)
        /\ Len(Matched) + Len(UnmatchedImages) = Len(images)
        /\ \A k \in MatchedIdx :
              \E i \in 1..Len(csvData) :
                  /\ Truthy(csvData[i].sku)
                  /\ csvData[i].sku = Matched[k].matchedSku

\* C30 witness: of three images the first and the third are matched and the
\* second is not
C30_Witness ==
    /\ MatchReturned
    /\ Len(images) = 3
    /\ Len(Matched) = 2
    /\ MatchedImages[1] = images[1] /\ MatchedImages[2] = images[3]
    /\ UnmatchedImages = <<images[2]>>

----------------------------------------------------------------------------
(* Order of the elements within a list *)

\* C29: in every elements list of the composer the elements stand in
\* non-decreasing zIndex order, so that painting in list order puts the frame
\* beneath every image and text and badges above the imagery.
C29_ListOrderFollowsZIndex ==
    Composed =>
        \A els \in ElementLists :
            \A i, j \in 1..Len(els) :
                i < j => els[i].zIndex <= els[j].zIndex

----------------------------------------------------------------------------
(* generateLayoutRecommendations called twice with the same arguments *)

\* the second call: the same products, frame, icons and csvData objects
GenerateLayoutsAgain ==
    /\ pc = "composed"
    /\ pc' = "recomposed"
    /\ layouts' = generateLayoutRecommendations(products, frameInfo, icons, layoutCsv)
    /\ UNCHANGED <<images, csvData, matchResult, csvColumns, csvRows, parsedCSV,
                   products, frameInfo, icons, layoutCsv,
                   textVars, analyzerVars, serverVars>>

NextComposeTwice == GenerateLayouts \/ GenerateLayoutsAgain

SpecComposeTwice == InitCompose /\ [][NextComposeTwice]_vars

----------------------------------------------------------------------------
(* The matcher and the composer's lookup applied to the same image *)

\* one uploaded image and a record table; the composer is handed the image
\* under the same file name and the same table as csvData
InitLookup ==
    /\ pc = "ready"
    /\ images \in {imgs \in ImageLists : Len(imgs) = 1}
    /\ csvData \in RecordTables
    /\ matchResult = <<>>
    /\ products = <<[fileName |-> images[1].originalName,
                     url      |-> Url("products", images[1].originalName)]>>
    /\ frameInfo = <<>> /\ icons = <<>> /\ layouts = <<>>
    /\ layoutCsv = <<csvData>>
    /\ IdleParser
    /\ IdleText
    /\ IdleAnalyzer
    /\ IdleServer

\* const csvRow = csvData ? this.matchProductToCSV(product, csvData) : null
MatchProductToCSV ==
    /\ pc = "matched"
    /\ pc' = "selected"
    /\ textRow' = matchProductToCSV(products[1], layoutCsv)
    /\ UNCHANGED <<images, csvData, matchResult, csvColumns, csvRows, parsedCSV,
                   products, frameInfo, icons, layoutCsv, layouts,
                   textRegion, textElements, analyzerVars, serverVars>>

NextLookup == MatchImages \/ MatchProductToCSV

SpecLookup == InitLookup /\ [][NextLookup]_vars

\* C24: the record matchProductToCSV selects for an image is the record
\* matchImagesToProducts pairs with that image (the row of the table at the
\* paired product's csvIndex), and it selects none exactly when the matcher
\* leaves the image unmatched.
C24_ComposerAgreesWithMatcher ==
    pc = "selected" =>
        IF Len(Matched) = 0
        THEN textRow = <<>>
        ELSE textRow = <<csvData[Matched[1].product.csvIndex + 1]>>

----------------------------------------------------------------------------
(* Renaming the matched images of an upload *)

UploadSucceeded == Answered("upload") /\ response[1].status = 200

\* C25: after a successful upload every uploaded product image is a file of
\* its own in the products directory (as many files as product images were
\* uploaded) and no two product entries of the result share a url, also when
\* several images match the same SKU.
C25_RenamingKeepsEveryImage ==
    UploadSucceeded =>
        LET entries == response[1].body.files.products
        IN  /\ Len(disk[1].products) = Len(request[1].productImages)
            /\ \A i, j \in 1..Len(entries) :
                  i # j => entries[i].url # entries[j].url

----------------------------------------------------------------------------
(* The life of a session: uploads, reads and deletion *)
(* request holds the upload requests the session has received since it was  *)
(* created or last deleted.                                                 *)

\* FileHandler.getSessionStatus: the session directory afterwards (the
\* directories are created on the way) and the status; files.frame is an
\* array or an object, so !!files.frame is true either way
getSessionStatus(d) ==
    LET dirs == createSessionDirectories(d)[1]
    IN  [disk   |-> <<dirs>>,
         result |->
            IF dirs.sessionJson = <<>>
            THEN Returned([exists |-> FALSE, status |-> "not_found"])
            ELSE LET files == dirs.sessionJson[1].files
                 IN  Returned(
                       [exists |-> TRUE, status |-> "active",
                        fileCounts |->
                           [products |-> Len(files.products),
                            icons    |-> Len(files.icons),
                            hasFrame |-> TRUE,
                            hasCsv   |-> files.csv # <<>>]])]

\* FileHandler.cleanupSession: removes the session directory when it exists
cleanupSession(d) ==
    IF d # <<>> THEN [disk |-> <<>>, result |-> TRUE]
    ELSE [disk |-> d, result |-> FALSE]

\* the files an upload request carries
FileCount(files) ==
    Len(files.productImages) + Len(files.icons) + Len(files.frame)

\* later requests to the same session, without a CSV: one readable image, or
\* a readable image followed by one that cannot be processed
FollowUpRequests ==
    LET readable   == CHOOSE f \in UploadImages : f.mimetype = "image/jpeg"
        unreadable == CHOOSE f \in UploadImages : f.mimetype = "image/png"
    IN  { [productImages |-> <<readable>>, icons |-> <<>>, frame |-> <<>>,
           csvFile |-> <<>>],
          [productImages |-> <<readable, unreadable>>, icons |-> <<>>,
           frame |-> <<>>, csvFile |-> <<>>] }

\* POST /api/upload to a session that has received one upload
PostUploadAgain ==
    /\ pc = "serving"
    /\ Len(request) = 1
    /\ \E files \in FollowUpRequests :
        LET out == uploadAfter(disk, files, FileCount(request[1]))
        IN  /\ request' = Append(request, files)
            /\ disk' = out.disk
            /\ response' =
                <<[endpoint |-> "upload"]
                  @@ (IF out.result.threw
                      THEN Respond(500, [error |-> "Upload failed"])
                      ELSE Respond(200, out.result.value))>>
    /\ UNCHANGED <<pc, images, csvData, matchResult, csvColumns, csvRows,
                   parsedCSV, products, frameInfo, icons, layoutCsv, layouts,
                   textVars, analyzerVars>>

\* GET /api/files/:sessionId
GetFiles ==
    /\ pc = "serving"
    /\ LET got == getSessionFiles(disk)
       IN  /\ disk' = got.disk
           /\ response' =
                <<[endpoint |-> "files"]
                  @@ (IF got.result.threw
                      THEN Respond(404, [error |-> "Session not found"])
                      ELSE Respond(200, [success |-> TRUE,
                                         data |-> got.result.value]))>>
    /\ UNCHANGED <<pc, images, csvData, matchResult, csvColumns, csvRows,
                   parsedCSV, products, frameInfo, icons, layoutCsv, layouts,
                   textVars, analyzerVars, request>>

\* GET /api/session/:sessionId
GetSession ==
    /\ pc = "serving"
    /\ LET got == getSessionStatus(disk)
       IN  /\ disk' = got.disk
           /\ response' =
                <<[endpoint |-> "session"]
                  @@ Respond(200, [success |-> TRUE,
                                   data |-> got.result.value])>>
    /\ UNCHANGED <<pc, images, csvData, matchResult, csvColumns, csvRows,
                   parsedCSV, products, frameInfo, icons, layoutCsv, layouts,
                   textVars, analyzerVars, request>>

\* DELETE /api/session/:sessionId
DeleteSession ==
    /\ pc = "serving"
    /\ LET out == cleanupSession(disk)
       IN  /\ disk' = out.disk
           /\ request' = <<>>
           /\ response' =
                <<[endpoint |-> "delete"]
                  @@ (IF out.result
                      THEN Respond(200, [success |-> TRUE,
                                         message |-> "Session deleted successfully"])
                      ELSE Respond(404, [error |-> "Session not found"]))>>
    /\ UNCHANGED <<pc, images, csvData, matchResult, csvColumns, csvRows,
                   parsedCSV, products, frameInfo, icons, layoutCsv, layouts,
                   textVars, analyzerVars>>

NextSession ==
    \/ PostUpload
    \/ PostUploadAgain
    \/ GetFiles
    \/ GetSession
    \/ GetLayouts
    \/ DeleteSession

SpecSession == InitServer /\ [][NextSession]_vars

----------------------------------------------------------------------------
(* Claims about the life of a session *)

\* the upload of these files is carried out and does not throw
UploadAccepted(files) ==
    /\ FileCount(files) + Len(files.csvFile) > 0
    /\ ~ upload(<<>>, files).result.threw

\* C26: after an upload with a CSV and a later successful upload without
\* one, getSessionFiles still returns the parsed data of that CSV.
C26_CsvDataSurvivesLaterUploads ==
    ( /\ Answered("files")
      /\ Len(request) = 2
      /\ request[1].csvFile # <<>>
      /\ UploadAccepted(request[1])
      /\ request[2].csvFile = <<>>
      /\ UploadAccepted(request[2]) ) =>
        /\ response[1].status = 200
        /\ response[1].body.data.csvData =
              JsObject(parseProductCSV(request[1].csvFile[1].columns,
                                       request[1].csvFile[1].rows))

\* C27: as long as the session has not been uploaded to, or since it was
\* deleted, a request leaves the upload storage as it is and a DELETE is
\* answered with 404 'Session not found'.
C27_ReadsCreateNoState ==
    [][(request = <<>> /\ request' = <<>>) =>
          /\ disk' = disk
          /\ (response' # response /\ response'[1].endpoint = "delete") =>
                /\ response'[1].status = 404
                /\ response'[1].body = [error |-> "Session not found"]]_vars

\* C28: an upload that fails leaves the session directories with the files
\* they had before the request, and getSessionFiles returns what it
\* returned before.
C28_FailedUploadLeavesNoTrace ==
    [][(request' # request /\ request' # <<>> /\ response'[1].status = 500) =>
          /\ createSessionDirectories(disk') = createSessionDirectories(disk)
          /\ getSessionFiles(disk').result = getSessionFiles(disk).result]_vars

====
